---- MODULE Spec2Model ----
(***************************************************************************)
(* Model of rstcmalloc: the top-level dispatcher (src/src/allocator.rs),   *)
(* the thread front-end (src/src/thread_cache.rs) and the size-class table *)
(* (src/src/size_class.rs).  The central free list, the page heap, the     *)
(* page map and the page provider are not among the source files; they     *)
(* are modelled from sections 4.1-4.4 of the specification.                *)
(***************************************************************************)
EXTENDS Integers, Sequences, FiniteSets, TLC

(***************************************************************************)
(* Bounds of the model.                                                    *)
(***************************************************************************)
\* Number of threads that call the allocator.
NumThreads == 2
\* Largest number of blocks the callers hold at one time.
MaxLive == 2
\* Pages the operating system will hand out before it refuses a reservation.
OsPages == 64
\* Number of calls the threads make in one run.
MaxCalls == 5
\* Largest request size the size-class lookups are tried with.
MaxRequest == 262152

\* The largest burst of allocations one thread makes before it frees them all.
BurstMax == 40

(***************************************************************************)
(* Program constants.                                                      *)
(***************************************************************************)
PAGE_SHIFT == 13
PAGE_SIZE == 8192
NUM_SIZE_CLASSES == 46
MAX_SMALL_SIZE == 262144
SMALL_LOOKUP_LEN == 129
MAX_THREAD_CACHE_SIZE == 4194304
\* Pages requested from the page provider when the page heap has to grow.
GROW_PAGES == 64
\* First page number of the region the page provider reserves.
OS_BASE_PAGE == 16

Null == 0

Min(a, b) == IF a < b THEN a ELSE b
Max(a, b) == IF a > b THEN a ELSE b

(***************************************************************************)
(* size_class.rs: the table, one entry per class 0..45 (entry c+1 is       *)
(* class c).                                                               *)
(***************************************************************************)
ClassSizes ==
  << 0, 8, 16, 24, 32, 40, 48, 56, 64, 80, 96, 112, 128, 160, 192, 224, 256,
     320, 384, 448, 512, 640, 768, 896, 1024, 1280, 1536, 1792, 2048,
     2560, 3072, 3584, 4096, 5120, 6144, 7168, 8192,
     10240, 12288, 16384, 20480, 32768, 40960, 65536, 131072, 262144 >>

ClassPages ==
  << 0, 1, 1, 1, 1, 1, 1, 1, 1, 1, 1, 1, 1, 1, 1, 1, 1,
     1, 1, 1, 1, 1, 1, 1, 1, 1, 1, 1, 1,
     1, 1, 1, 1, 1, 1, 1, 1,
     2, 2, 2, 3, 4, 5, 8, 16, 32 >>

ClassBatch ==
  << 0, 32, 32, 32, 32, 32, 32, 32, 32, 32, 32, 32, 32, 32, 32, 32, 32,
     16, 16, 16, 16, 16, 16, 16, 16, 8, 8, 8, 8,
     4, 4, 4, 4, 4, 4, 4, 4,
     2, 2, 2, 2, 2, 2, 2, 2, 2 >>

SIZE_CLASSES ==
  [c \in 0 .. NUM_SIZE_CLASSES - 1 |->
     [size |-> ClassSizes[c + 1], pages |-> ClassPages[c + 1],
      batch_size |-> ClassBatch[c + 1]]]

class_info(cls) == SIZE_CLASSES[cls]

\* A faulty class_to_size that answers with the bytes of the class's span.
class_to_size_span_bytes(cls) == SIZE_CLASSES[cls].pages * PAGE_SIZE

class_to_size(cls) == SIZE_CLASSES[cls].size

objects_per_span(info) == (info.pages * PAGE_SIZE) \div info.size

\* The inner loop of the SMALL_LOOKUP initialiser: the first class from cls
\* on whose size is at least size, NUM_SIZE_CLASSES when there is none.
RECURSIVE LookupScan(_, _)
LookupScan(cls, size) ==
  IF cls >= NUM_SIZE_CLASSES THEN cls
  ELSE IF SIZE_CLASSES[cls].size >= size THEN cls
  ELSE LookupScan(cls + 1, size)

SMALL_LOOKUP ==
  [i \in 0 .. SMALL_LOOKUP_LEN - 1 |->
     LET size == IF i = 0 THEN 0 ELSE i * 8
         cls == LookupScan(1, size)
     IN IF cls >= NUM_SIZE_CLASSES THEN NUM_SIZE_CLASSES - 1 ELSE cls]

\* A faulty linear scan that looks at every second class only.
RECURSIVE UpperScan_skips_one(_, _)
UpperScan_skips_one(cls, size) ==
  IF cls >= NUM_SIZE_CLASSES THEN 0
  ELSE IF SIZE_CLASSES[cls].size >= size THEN cls
  ELSE UpperScan_skips_one(cls + 2, size)

\* The linear scan of size_to_class for sizes above 1024.
RECURSIVE UpperScan(_, _)
UpperScan(cls, size) ==
  IF cls >= NUM_SIZE_CLASSES THEN 0
  ELSE IF SIZE_CLASSES[cls].size >= size THEN cls
  ELSE UpperScan(cls + 1, size)

\* A faulty size_to_class that indexes the lookup table with size / 8.
size_to_class_rounds_down(size) ==
  IF size = 0 THEN 1
  ELSE IF size > MAX_SMALL_SIZE THEN 0
  ELSE IF size <= 1024 THEN SMALL_LOOKUP[size \div 8]
  ELSE UpperScan(25, size)

\* A faulty size_to_class that takes MAX_SMALL_SIZE itself for a large request.
size_to_class_excludes_max(size) ==
  IF size = 0 THEN 1
  ELSE IF size >= MAX_SMALL_SIZE THEN 0
  ELSE IF size <= 1024 THEN SMALL_LOOKUP[(size + 7) \div 8]
  ELSE UpperScan(25, size)

size_to_class(size) ==
  IF size = 0 THEN 1
  ELSE IF size > MAX_SMALL_SIZE THEN 0
  ELSE IF size <= 1024 THEN SMALL_LOOKUP[(size + 7) \div 8]
  ELSE UpperScan(25, size)


(***************************************************************************)
(* State.                                                                  *)
(***************************************************************************)
VARIABLES
  tc,          \* per thread: lists (per class: head chain, length, max_length), total_size, max_size
  spans,       \* span start page -> span record
  free_spans,  \* page heap: the free spans, most recently inserted first
  pagemap,     \* page number -> start page of the owning span
  os_used,     \* pages reserved from the operating system so far
  mem,         \* first word of each block that was ever written
  live,        \* the callers' blocks: pointer -> layout currently associated with it
  last,        \* the last call: operation, arguments and result
  calls,       \* number of calls made so far
  lockpc,      \* per thread: the lock steps of its call that are still to come
  held         \* per thread: the locks it holds

vars ==
  << tc, spans, free_spans, pagemap, os_used, mem, live, last, calls, lockpc, held >>

Threads == 1 .. NumThreads

\* The allocator's state as one value, handed from step to step of a call.
Cur ==
  [tc |-> tc, spans |-> spans, free_spans |-> free_spans, pagemap |-> pagemap,
   os_used |-> os_used, mem |-> mem, locks |-> << >>]

Commit(st) ==
  /\ tc' = st.tc
  /\ spans' = st.spans
  /\ free_spans' = st.free_spans
  /\ pagemap' = st.pagemap
  /\ os_used' = st.os_used
  /\ mem' = st.mem

PageOf(addr) == addr \div PAGE_SIZE

\* Span::start_addr
start_addr(start) == start * PAGE_SIZE

\* A block's first word: zero on pages fresh from the operating system, LinkWord
\* while the block is a free object, else what the caller wrote.
\* What the first word of a free object holds: a next-link, never a caller's data.
LinkWord == 0 - 1

MemRead(m, a) == IF a \in DOMAIN m THEN m[a] ELSE 0

MemWrite(m, a, v) == [x \in DOMAIN m \cup {a} |-> IF x = a THEN v ELSE m[x]]

SeqRemove(q, x) == SelectSeq(q, LAMBDA y : y # x)

SeqSet(q) == {q[i] : i \in 1 .. Len(q)}

MemWriteAll(m, as, v) ==
  [x \in DOMAIN m \cup SeqSet(as) |-> IF x \in SeqSet(as) THEN v ELSE m[x]]

SetMin(S) == CHOOSE x \in S : \A y \in S : x <= y

\* The element of a one-element set: { e(r) : r \in {call} } names a call's
\* result r once, however often e uses it.
The(S) == CHOOSE x \in S : TRUE

(***************************************************************************)
(* Locks.  Lock 0 is the page-heap lock, lock c >= 1 the lock of central   *)
(* bucket c.  A call notes in st.locks, in order, every lock it takes and  *)
(* every lock it gives back.                                               *)
(***************************************************************************)
PageHeapLock == 0

Acq(st, l) == [st EXCEPT !.locks = Append(@, [a |-> "acq", l |-> l])]

\* A faulty unlock: the guard is dropped without the lock being given back.
Rel_keeps_lock(st, l) == st

Rel(st, l) == [st EXCEPT !.locks = Append(@, [a |-> "rel", l |-> l])]

(***************************************************************************)
(* Page provider (specification 4.1): reserves runs of pages in ascending  *)
(* address order and refuses once OsPages pages are out.                   *)
(***************************************************************************)
allocate_pages(st, n) ==
  IF st.os_used + n > OsPages
  THEN [st |-> st, page |-> Null]
  ELSE [st |-> [st EXCEPT !.os_used = @ + n], page |-> OS_BASE_PAGE + st.os_used]

(***************************************************************************)
(* Page map (specification 4.3).                                           *)
(***************************************************************************)
pagemap_get(pm, page) == IF page \in DOMAIN pm THEN pm[page] ELSE Null

\* A faulty register_span that maps the first page of the span only.
register_span_first_page(pm, start, n) ==
  [p \in DOMAIN pm \cup {start} |-> IF p = start THEN start ELSE pm[p]]

\* PageMap::register_span: every page of the span maps to it.
register_span(pm, start, n) ==
  [p \in DOMAIN pm \cup (start .. start + n - 1) |->
     IF p \in start .. start + n - 1 THEN start ELSE pm[p]]

(***************************************************************************)
(* Page heap (specification 4.2).                                          *)
(***************************************************************************)
NewSpan(n) ==
  [num_pages |-> n, size_class |-> 0, freelist |-> <<>>, free_count |-> 0,
   where |-> "none", bucket |-> 0]

\* Puts a new free span of n pages at start on the free lists.
InsertFree(st, start, n) ==
  [st EXCEPT !.spans = [s \in DOMAIN st.spans \cup {start} |->
                          IF s = start THEN NewSpan(n) ELSE st.spans[s]],
             !.free_spans = <<start>> \o @,
             !.pagemap = register_span(@, start, n)]

\* Takes the first n pages of free span s (of len pages) for the caller and
\* reinserts the remainder as a new free span.
Carve(st, s, n) ==
  LET len == st.spans[s].num_pages
      taken == [st EXCEPT !.spans[s] = NewSpan(n),
                          !.free_spans = SeqRemove(@, s),
                          !.pagemap = register_span(@, s, n)]
  IN IF len > n THEN InsertFree(taken, s + n, len - n) ELSE taken

\* The free spans of exactly len pages, in list order.
FreeOfLen(st, len) == SelectSeq(st.free_spans, LAMBDA s : st.spans[s].num_pages = len)

allocate_span(st, n) ==
  LET exact == FreeOfLen(st, n)
      bigger == {st.spans[s].num_pages : s \in {x \in SeqSet(st.free_spans) : st.spans[x].num_pages > n}}
  IN IF exact # <<>>
     THEN [st |-> Carve(st, Head(exact), n), span |-> Head(exact)]
     ELSE IF bigger # {}
     THEN LET s == Head(FreeOfLen(st, SetMin(bigger)))
          IN [st |-> Carve(st, s, n), span |-> s]
     ELSE LET want == Max(n, GROW_PAGES)
              r == allocate_pages(st, want)
          IN IF r.page = Null
             THEN [st |-> st, span |-> Null]
             ELSE [st |-> Carve(InsertFree(r.st, r.page, want), r.page, n),
                   span |-> r.page]

\* Whether a free span ends right before page p / starts at page p.
FreeBefore(st, p) ==
  LET s == pagemap_get(st.pagemap, p - 1)
  IN IF s # Null /\ s \in SeqSet(st.free_spans) /\ s + st.spans[s].num_pages = p
     THEN s ELSE Null

FreeAt(st, p) ==
  LET s == pagemap_get(st.pagemap, p)
  IN IF s # Null /\ s \in SeqSet(st.free_spans) /\ s = p THEN s ELSE Null

\* A faulty deallocate_span that puts s on the free list without coalescing.
deallocate_span_no_merge(st, s) ==
  InsertFree([st EXCEPT !.spans = [x \in DOMAIN st.spans \ {s} |-> st.spans[x]]],
             s, st.spans[s].num_pages)

\* Coalesces s with its free neighbours, which leave their free list, and puts
\* the result on the free list; s itself is taken to be on no free list.
deallocate_span(st, s) ==
  LET n == st.spans[s].num_pages
      prev == FreeBefore(st, s)
      next == FreeAt(st, s + n)
      start == IF prev # Null THEN prev ELSE s
      total == n + (IF prev # Null THEN st.spans[prev].num_pages ELSE 0)
                 + (IF next # Null THEN st.spans[next].num_pages ELSE 0)
      gone == {s} \cup (IF prev # Null THEN {prev} ELSE {})
                  \cup (IF next # Null THEN {next} ELSE {})
      merged == gone \ {s}
      cleared == [st EXCEPT !.spans = [x \in DOMAIN st.spans \ gone |-> st.spans[x]],
                            !.free_spans = SelectSeq(@, LAMBDA x : x \notin merged)]
  IN InsertFree(cleared, start, total)


(***************************************************************************)
(* Central cache bucket (specification 4.4).  A span's where field says    *)
(* which list of a bucket links it (nonempty, empty or none) and its       *)
(* bucket field which bucket's.  No transfer buffer is kept.               *)
(***************************************************************************)
\* The objects of a span of n pages at start carved for class c, by address.
SpanObjects(start, n, c) ==
  [i \in 1 .. (n * PAGE_SIZE) \div class_to_size(c) |->
     start_addr(start) + (i - 1) * class_to_size(c)]

\* A span's total object capacity.
Capacity(sp) ==
  IF sp.size_class = 0 THEN 0
  ELSE (sp.num_pages * PAGE_SIZE) \div class_to_size(sp.size_class)

NonEmptySpans(st, c) ==
  {s \in DOMAIN st.spans : st.spans[s].where = "nonempty" /\ st.spans[s].bucket = c}

\* Asks the page heap for a fresh span of class c and carves it into objects,
\* each object's first word holding the next-link.
Populate(st, c) ==
  The({ IF r.span = Null
        THEN [st |-> Rel(r.st, PageHeapLock), ok |-> FALSE]
        ELSE LET objs == SpanObjects(r.span, class_info(c).pages, c)
             IN [st |-> [Rel(r.st, PageHeapLock) EXCEPT !.spans[r.span] =
                           [@ EXCEPT !.size_class = c, !.freelist = objs,
                                     !.free_count = Len(objs),
                                     !.where = "nonempty", !.bucket = c],
                         !.mem = MemWriteAll(@, objs, LinkWord)],
                 ok |-> TRUE]
        : r \in {allocate_span(Acq(st, PageHeapLock), class_info(c).pages)} })

RECURSIVE RemoveLoop(_, _, _, _)
RemoveLoop(st, c, max_count, chain) ==
  IF Len(chain) >= max_count
  THEN [st |-> st, count |-> Len(chain), chain |-> chain]
  ELSE IF NonEmptySpans(st, c) # {}
  THEN LET s == SetMin(NonEmptySpans(st, c))
           sp == st.spans[s]
           take == Min(max_count - Len(chain), Len(sp.freelist))
           rest == SubSeq(sp.freelist, take + 1, Len(sp.freelist))
       IN RemoveLoop([st EXCEPT !.spans[s] =
                        [sp EXCEPT !.freelist = rest, !.free_count = @ - take,
                                   !.where = IF rest = <<>> THEN "empty" ELSE "nonempty"]],
                     c, max_count, chain \o SubSeq(sp.freelist, 1, take))
  ELSE The({ IF r.ok THEN RemoveLoop(r.st, c, max_count, chain)
             ELSE [st |-> r.st, count |-> Len(chain), chain |-> chain]
             : r \in {Populate(st, c)} })

\* CentralFreeList::remove_range: up to max_count objects of class c, as a chain.
remove_range(st, c, max_count) == RemoveLoop(st, c, max_count, <<>>)

\* Gives one object back: onto the free list of the span that owns its page.
InsertObject(st, c, obj) ==
  LET s == pagemap_get(st.pagemap, PageOf(obj))
      sp == st.spans[s]
      pushed == [sp EXCEPT !.freelist = <<obj>> \o @, !.free_count = @ + 1]
      linked == [st EXCEPT !.mem = MemWrite(@, obj, LinkWord)]
  IN IF s = Null \/ s \notin DOMAIN st.spans THEN st
     ELSE IF pushed.free_count = Capacity(pushed)
     THEN Rel(deallocate_span(Acq([linked EXCEPT !.spans[s] = pushed], PageHeapLock), s),
              PageHeapLock)
     ELSE IF sp.where = "empty"
     THEN [linked EXCEPT !.spans[s] = [pushed EXCEPT !.where = "nonempty", !.bucket = c]]
     ELSE [linked EXCEPT !.spans[s] = pushed]

RECURSIVE InsertLoop(_, _, _, _)
InsertLoop(st, c, chain, count) ==
  IF count = 0 \/ chain = <<>> THEN st
  ELSE InsertLoop(InsertObject(st, c, Head(chain)), c, Tail(chain), count - 1)

\* CentralFreeList::insert_range: count objects of the chain go back to their spans.
insert_range(st, c, chain, count) == InsertLoop(st, c, chain, count)

(***************************************************************************)
(* thread_cache.rs: FreeList.  A list is its chain of objects from head,   *)
(* its length field and its max_length field.                              *)
(***************************************************************************)
FreeList_new == [head |-> <<>>, length |-> 0, max_length |-> 1]

\* A faulty pop that hands out the head object and leaves it on the list.
pop_keeps_head(list) ==
  IF list.head # <<>>
  THEN [list |-> list, obj |-> Head(list.head)]
  ELSE [list |-> list, obj |-> Null]

\* FreeList::pop
pop(list) ==
  IF list.head # <<>>
  THEN [list |-> [list EXCEPT !.head = Tail(@), !.length = @ - 1], obj |-> Head(list.head)]
  ELSE [list |-> list, obj |-> Null]

\* A faulty push that links the object in at the tail of the list.
push_at_tail(list, obj) == [list EXCEPT !.head = @ \o <<obj>>, !.length = @ + 1]

\* FreeList::push
push(list, obj) == [list EXCEPT !.head = <<obj>> \o @, !.length = @ + 1]

\* A faulty push_batch that links in only the first object of the batch.
push_batch_drops_tail(list, chain, count) ==
  IF chain = <<>> \/ count = 0 THEN list
  ELSE [list EXCEPT !.head = <<Head(chain)>> \o @, !.length = @ + count]

\* FreeList::push_batch: the chain from head is walked count - 1 links to its
\* tail, which is linked in front of the list.
push_batch(list, chain, count) ==
  IF chain = <<>> \/ count = 0 THEN list
  ELSE [list EXCEPT !.head = SubSeq(chain, 1, Min(count, Len(chain))) \o @,
                    !.length = @ + count]

\* FreeList::pop_batch: pops up to count objects, each pushed in front of the
\* chain it returns.
RECURSIVE pop_batch_loop(_, _, _, _)
pop_batch_loop(list, count, popped, chain) ==
  IF popped < count /\ list.head # <<>>
  THEN pop_batch_loop([list EXCEPT !.head = Tail(@), !.length = @ - 1], count,
                      popped + 1, <<Head(list.head)>> \o chain)
  ELSE [list |-> list, count |-> popped, chain |-> chain]

\* A faulty pop_batch that drops the object it popped last from the chain.
pop_batch_loses_one(list, count) ==
  LET r == pop_batch_loop(list, count, 0, <<>>)
  IN IF r.chain = <<>> THEN r
     ELSE [r EXCEPT !.chain = Tail(@), !.count = @ - 1]

pop_batch(list, count) == pop_batch_loop(list, count, 0, <<>>)

(***************************************************************************)
(* thread_cache.rs: ThreadCache.  The array lists holds one FreeList per   *)
(* class; the model stores the lists that differ from FreeList::new() and  *)
(* reads every other entry as FreeList::new().                             *)
(***************************************************************************)
ThreadCache_new ==
  [lists |-> << >>, total_size |-> 0, max_size |-> MAX_THREAD_CACHE_SIZE]

\* self.lists[size_class]
ListOf(cache, c) == IF c \in DOMAIN cache.lists THEN cache.lists[c] ELSE FreeList_new

\* self.lists[size_class] = list
SetList(st, t, c, list) ==
  LET ls == st.tc[t].lists
  IN [st EXCEPT !.tc[t].lists =
        IF list = FreeList_new
        THEN [x \in DOMAIN ls \ {c} |-> ls[x]]
        ELSE [x \in DOMAIN ls \cup {c} |-> IF x = c THEN list ELSE ls[x]]]

\* A faulty fetch_from_central that sets max_length to the batch size before it
\* looks at what the central bucket delivered.
fetch_from_central_grows_first(st, t, size_class) ==
  The({ LET info == class_info(size_class)
            remaining_count == r.count - 1
            list == push_batch(ListOf(r.st.tc[t], size_class), Tail(r.chain),
                               remaining_count)
            grown == [list EXCEPT !.max_length = Max(@, info.batch_size)]
        IN IF r.count = 0 \/ r.chain = <<>>
           THEN [st |-> SetList(r.st, t, size_class,
                                [ListOf(r.st.tc[t], size_class) EXCEPT
                                   !.max_length = Max(@, info.batch_size)]),
                 ptr |-> Null, k |-> r.count]
           ELSE [st |-> [SetList(r.st, t, size_class, grown) EXCEPT
                           !.tc[t].total_size =
                              IF remaining_count > 0
                              THEN @ + remaining_count * info.size ELSE @],
                 ptr |-> Head(r.chain), k |-> r.count]
        : r \in { LET got == remove_range(Acq(st, size_class), size_class,
                                          class_info(size_class).batch_size)
                  IN [got EXCEPT !.st = Rel(@, size_class)] } })

\* A faulty fetch_from_central that leaves max_length as it was.
fetch_from_central_keeps_max_length(st, t, size_class) ==
  The({ LET info == class_info(size_class)
            remaining_count == r.count - 1
            list == push_batch(ListOf(r.st.tc[t], size_class), Tail(r.chain),
                               remaining_count)
        IN IF r.count = 0 \/ r.chain = <<>>
           THEN [st |-> r.st, ptr |-> Null, k |-> r.count]
           ELSE [st |-> [SetList(r.st, t, size_class, list) EXCEPT
                           !.tc[t].total_size =
                              IF remaining_count > 0
                              THEN @ + remaining_count * info.size ELSE @],
                 ptr |-> Head(r.chain), k |-> r.count]
        : r \in { LET got == remove_range(Acq(st, size_class), size_class,
                                          class_info(size_class).batch_size)
                  IN [got EXCEPT !.st = Rel(@, size_class)] } })

\* ThreadCache::fetch_from_central
fetch_from_central(st, t, size_class) ==
  The({ LET info == class_info(size_class)
            remaining_count == r.count - 1
            list == push_batch(ListOf(r.st.tc[t], size_class), Tail(r.chain),
                               remaining_count)
            grown == IF list.max_length < r.count
                     THEN [list EXCEPT !.max_length = r.count] ELSE list
        IN IF r.count = 0 \/ r.chain = <<>>
           THEN [st |-> r.st, ptr |-> Null, k |-> r.count]
           ELSE [st |-> [SetList(r.st, t, size_class, grown) EXCEPT
                           !.tc[t].total_size =
                              IF remaining_count > 0
                              THEN @ + remaining_count * info.size ELSE @],
                 ptr |-> Head(r.chain), k |-> r.count]
        : r \in { LET got == remove_range(Acq(st, size_class), size_class,
                                          class_info(size_class).batch_size)
                  IN [got EXCEPT !.st = Rel(@, size_class)] } })

\* A faulty allocate that leaves total_size alone when it pops an object.
allocate_keeps_total_size(st, t, size_class) ==
  LET r == pop(ListOf(st.tc[t], size_class))
  IN IF r.obj # Null
     THEN [st |-> SetList(st, t, size_class, r.list), ptr |-> r.obj, k |-> -1]
     ELSE fetch_from_central(st, t, size_class)

\* A faulty allocate that takes the central bucket's lock before it pops.
allocate_locks_bucket(st, t, size_class) ==
  LET r == pop(ListOf(st.tc[t], size_class))
  IN IF r.obj # Null
     THEN [st |-> Rel(Acq([SetList(st, t, size_class, r.list) EXCEPT
                             !.tc[t].total_size = @ - class_to_size(size_class)],
                          size_class), size_class),
           ptr |-> r.obj, k |-> -1]
     ELSE fetch_from_central(st, t, size_class)

\* ThreadCache::allocate
allocate(st, t, size_class) ==
  LET r == pop(ListOf(st.tc[t], size_class))
  IN IF r.obj # Null
     THEN [st |-> [SetList(st, t, size_class, r.list) EXCEPT
                     !.tc[t].total_size = @ - class_to_size(size_class)],
           ptr |-> r.obj, k |-> -1]
     ELSE fetch_from_central(st, t, size_class)

\* A faulty release_to_central that leaves total_size as it was.
release_to_central_keeps_total_size(st, t, size_class) ==
  IF ListOf(st.tc[t], size_class).length \div 2 = 0 THEN st
  ELSE The({ SetList(Rel(insert_range(Acq(SetList(st, t, size_class, r.list),
                                          size_class),
                                      size_class, r.chain, r.count), size_class),
                     t, size_class,
                     [r.list EXCEPT !.max_length = Max(@, r.list.length)])
             : r \in {pop_batch(ListOf(st.tc[t], size_class),
                                ListOf(st.tc[t], size_class).length \div 2)} })

\* ThreadCache::release_to_central
\* A faulty release_to_central that shrinks max_length to the length left on
\* the list.
release_to_central_shrinks_max_length(st, t, size_class) ==
  IF ListOf(st.tc[t], size_class).length \div 2 = 0 THEN st
  ELSE The({ SetList(Rel(insert_range(
                           Acq([SetList(st, t, size_class, r.list) EXCEPT
                                  !.tc[t].total_size =
                                     @ - r.count * class_info(size_class).size],
                               size_class),
                           size_class, r.chain, r.count), size_class),
                     t, size_class,
                     [r.list EXCEPT !.max_length = Max(1, r.list.length)])
             : r \in {pop_batch(ListOf(st.tc[t], size_class),
                                ListOf(st.tc[t], size_class).length \div 2)} })

release_to_central(st, t, size_class) ==
  IF ListOf(st.tc[t], size_class).length \div 2 = 0 THEN st
  ELSE The({ SetList(Rel(insert_range(
                           Acq([SetList(st, t, size_class, r.list) EXCEPT
                                  !.tc[t].total_size =
                                     @ - r.count * class_info(size_class).size],
                               size_class),
                           size_class, r.chain, r.count), size_class),
                     t, size_class,
                     [r.list EXCEPT !.max_length = Max(@, r.list.length)])
             : r \in {pop_batch(ListOf(st.tc[t], size_class),
                                ListOf(st.tc[t], size_class).length \div 2)} })

\* ThreadCache::scavenge
RECURSIVE scavenge_loop(_, _, _, _)
scavenge_loop(st, t, cls, target) ==
  IF cls >= NUM_SIZE_CLASSES \/ st.tc[t].total_size <= target THEN st
  ELSE The({ scavenge_loop(next, t, cls + 1, target)
             : next \in { IF ListOf(st.tc[t], cls).length \div 2 = 0 THEN st
                          ELSE The({ Rel(insert_range(
                                       Acq([SetList(st, t, cls, r.list) EXCEPT
                                              !.tc[t].total_size =
                                                 @ - r.count * class_info(cls).size],
                                           cls),
                                       cls, r.chain, r.count), cls)
                                     : r \in {pop_batch(ListOf(st.tc[t], cls),
                                                ListOf(st.tc[t], cls).length \div 2)} }) } })

scavenge(st, t) == scavenge_loop(st, t, 1, st.tc[t].max_size \div 2)

\* A faulty deallocate that never releases objects to the central bucket.
deallocate_never_releases(st, t, ptr, size_class) ==
  [SetList(st, t, size_class, push(ListOf(st.tc[t], size_class), ptr)) EXCEPT
     !.tc[t].total_size = @ + class_to_size(size_class),
     !.mem = MemWrite(@, ptr, LinkWord)]

\* A faulty deallocate that lets the list grow one object past max_length
\* before it releases.
deallocate_push_releases_late(st, t, ptr, size_class) ==
  The({ IF ListOf(pushed.tc[t], size_class).length
             > ListOf(pushed.tc[t], size_class).max_length + 1
        THEN release_to_central(pushed, t, size_class) ELSE pushed
        : pushed \in
            { [SetList(st, t, size_class, push(ListOf(st.tc[t], size_class), ptr)) EXCEPT
                 !.tc[t].total_size = @ + class_to_size(size_class),
                 !.mem = MemWrite(@, ptr, LinkWord)] } })

\* ThreadCache::deallocate up to its check of total_size: the push, and the
\* release to the central bucket when the list is over max_length.
deallocate_push(st, t, ptr, size_class) ==
  The({ IF ListOf(pushed.tc[t], size_class).length
             > ListOf(pushed.tc[t], size_class).max_length
        THEN release_to_central(pushed, t, size_class) ELSE pushed
        : pushed \in
            { [SetList(st, t, size_class, push(ListOf(st.tc[t], size_class), ptr)) EXCEPT
                 !.tc[t].total_size = @ + class_to_size(size_class),
                 !.mem = MemWrite(@, ptr, LinkWord)] } })

\* ThreadCache::deallocate
deallocate(st, t, ptr, size_class) ==
  The({ IF released.tc[t].total_size > released.tc[t].max_size
        THEN scavenge(released, t) ELSE released
        : released \in {deallocate_push(st, t, ptr, size_class)} })

\* The thread-exit hook that ThreadCache::init registers (specification 4.5,
\* Shutdown): every list is emptied into the central bucket of the list's class,
\* one bucket lock at a time.
RECURSIVE flush_loop(_, _, _)
flush_loop(st, t, cls) ==
  IF cls >= NUM_SIZE_CLASSES THEN st
  ELSE The({ flush_loop(next, t, cls + 1)
             : next \in { IF ListOf(st.tc[t], cls).length = 0 THEN st
                          ELSE The({ Rel(insert_range(
                                       Acq([SetList(st, t, cls, r.list) EXCEPT
                                              !.tc[t].total_size =
                                                 @ - r.count * class_info(cls).size],
                                           cls),
                                       cls, r.chain, r.count), cls)
                                     : r \in {pop_batch(ListOf(st.tc[t], cls),
                                                ListOf(st.tc[t], cls).length)} }) } })

\* The exiting thread's cache is flushed; the slot then holds a new cache.
thread_exit(st, t) == [flush_loop(st, t, 1) EXCEPT !.tc[t] = ThreadCache_new]

(***************************************************************************)
(* allocator.rs: TcMalloc.  Every operation returns the state after it and *)
(* what the caller gets; k is the number of objects the central bucket     *)
(* delivered (-1: served by the thread cache, -2: large path, -3: none).   *)
(***************************************************************************)
\* TcMalloc::alloc_small
alloc_small(st, t, class) == allocate(st, t, class)

\* TcMalloc::dealloc_small
dealloc_small(st, t, ptr, class) == deallocate(st, t, ptr, class)

\* A faulty alloc_large that asks for size / PAGE_SIZE pages, rounded down.
alloc_large_rounds_down(st, size, align) ==
  The({ IF r.span = Null
        THEN [st |-> r.st, ptr |-> Null, k |-> -2]
        ELSE [st |-> [r.st EXCEPT !.spans[r.span].size_class = 0,
                                  !.pagemap = register_span(@, r.span,
                                                r.st.spans[r.span].num_pages)],
              ptr |-> start_addr(r.span), k |-> -2]
        : r \in { LET got == allocate_span(Acq(st, PageHeapLock), size \div PAGE_SIZE)
                  IN [got EXCEPT !.st = Rel(@, PageHeapLock)] } })

\* TcMalloc::alloc_large
alloc_large(st, size, align) ==
  The({ IF r.span = Null
        THEN [st |-> r.st, ptr |-> Null, k |-> -2]
        ELSE [st |-> [r.st EXCEPT !.spans[r.span].size_class = 0,
                                  !.pagemap = register_span(@, r.span,
                                                r.st.spans[r.span].num_pages)],
              ptr |-> start_addr(r.span), k |-> -2]
        : r \in { LET got == allocate_span(Acq(st, PageHeapLock),
                                           (size + PAGE_SIZE - 1) \div PAGE_SIZE)
                  IN [got EXCEPT !.st = Rel(@, PageHeapLock)] } })

\* TcMalloc::alloc
alloc(st, t, size, align) ==
  LET class == IF align <= 8 THEN size_to_class(size)
               ELSE size_to_class(Max(size, align))
      small == class # 0 /\ (align <= 8 \/ class_to_size(class) % align = 0)
  IN IF size = 0 THEN [st |-> st, ptr |-> align, k |-> -3]
     ELSE IF small THEN alloc_small(st, t, class)
     ELSE alloc_large(st, size, align)

\* ptr::write_bytes(ptr, 0, size): every word of [ptr, ptr + size) that was
\* ever written is zero afterwards; the others are zero as the OS gave them.
write_bytes(m, ptr, size) ==
  [x \in DOMAIN m \cup {ptr} |-> IF ptr <= x /\ x < ptr + size THEN 0 ELSE m[x]]

\* A faulty alloc_zeroed that takes what alloc returns for zeroed memory.
alloc_zeroed_trusts_alloc(st, t, size, align) == alloc(st, t, size, align)

\* TcMalloc::alloc_zeroed
alloc_zeroed(st, t, size, align) ==
  The({ IF a.ptr # Null /\ size > 0
        THEN [a EXCEPT !.st.mem = write_bytes(@, a.ptr, size)]
        ELSE a
        : a \in {alloc(st, t, size, align)} })

\* A faulty dealloc_slow that takes the page-heap lock for the lookup and holds
\* it across both branches.
dealloc_slow_holds_heap_lock(st, t, ptr) ==
  LET span == pagemap_get(st.pagemap, PageOf(ptr))
      sc == st.spans[span].size_class
  IN IF span = Null THEN [st |-> st, to |-> -1]
     ELSE IF sc = 0
     THEN [st |-> Rel(deallocate_span(Acq(st, PageHeapLock), span), PageHeapLock),
           to |-> 0]
     ELSE [st |-> Rel(dealloc_small(Acq(st, PageHeapLock), t, ptr, sc), PageHeapLock),
           to |-> sc]

\* A faulty dealloc_slow that gives the span to the page heap whatever its class.
dealloc_slow_ignores_class(st, t, ptr) ==
  LET span == pagemap_get(st.pagemap, PageOf(ptr))
  IN IF span = Null THEN [st |-> st, to |-> -1]
     ELSE [st |-> Rel(deallocate_span(Acq(st, PageHeapLock), span), PageHeapLock),
           to |-> 0]

\* TcMalloc::dealloc_slow.  to is the class whose thread list took the
\* pointer, 0 when its span went to the page heap, -1 when nothing was done.
dealloc_slow(st, t, ptr) ==
  LET span == pagemap_get(st.pagemap, PageOf(ptr))
      sc == st.spans[span].size_class
  IN IF span = Null THEN [st |-> st, to |-> -1]
     ELSE IF sc = 0
     THEN [st |-> Rel(deallocate_span(Acq(st, PageHeapLock), span), PageHeapLock),
           to |-> 0]
     ELSE [st |-> dealloc_small(st, t, ptr, sc), to |-> sc]

\* A faulty dealloc without the early return for size 0: size_to_class(0) is 1.
dealloc_without_zero_check(st, t, ptr, size, align) ==
  IF align <= 8 /\ size_to_class(size) # 0
  THEN [st |-> dealloc_small(st, t, ptr, size_to_class(size)), to |-> size_to_class(size)]
  ELSE dealloc_slow(st, t, ptr)

\* TcMalloc::dealloc
dealloc(st, t, ptr, size, align) ==
  IF size = 0 THEN [st |-> st, to |-> -1]
  ELSE IF align <= 8 /\ size_to_class(size) # 0
  THEN [st |-> dealloc_small(st, t, ptr, size_to_class(size)), to |-> size_to_class(size)]
  ELSE dealloc_slow(st, t, ptr)

\* A faulty move that frees the old block before it copies from it.
realloc_move_frees_first(st, t, ptr, size, align, new_size) ==
  The({ IF a.ptr = Null
        THEN [st |-> a.st, ptr |-> Null, k |-> a.k, to |-> -1, copy |-> 0]
        ELSE The({ [st |-> [d.st EXCEPT !.mem =
                              MemWrite(@, a.ptr, MemRead(d.st.mem, ptr))],
                    ptr |-> a.ptr, k |-> a.k, to |-> d.to,
                    copy |-> Min(size, new_size)]
                   : d \in {dealloc(a.st, t, ptr, size, align)} })
        : a \in {alloc(st, t, new_size, align)} })

\* A faulty move that frees the old block even when the allocation failed.
realloc_move_frees_always(st, t, ptr, size, align, new_size) ==
  The({ The({ IF a.ptr = Null
              THEN [st |-> d.st, ptr |-> Null, k |-> a.k, to |-> -1, copy |-> 0]
              ELSE [st |-> d.st, ptr |-> a.ptr, k |-> a.k, to |-> d.to,
                    copy |-> Min(size, new_size)]
              : d \in {dealloc([a.st EXCEPT !.mem =
                                  MemWrite(@, a.ptr, MemRead(a.st.mem, ptr))],
                               t, ptr, size, align)} })
        : a \in {alloc(st, t, new_size, align)} })

\* The tail of realloc and realloc_slow: allocate, copy min(old, new) bytes,
\* free the old block with its layout.
realloc_move(st, t, ptr, size, align, new_size) ==
  The({ IF a.ptr = Null
        THEN [st |-> a.st, ptr |-> Null, k |-> a.k, to |-> -1, copy |-> 0]
        ELSE The({ [st |-> d.st, ptr |-> a.ptr, k |-> a.k, to |-> d.to,
                    copy |-> Min(size, new_size)]
                   : d \in {dealloc([a.st EXCEPT !.mem =
                                       MemWrite(@, a.ptr, MemRead(a.st.mem, ptr))],
                                    t, ptr, size, align)} })
        : a \in {alloc(st, t, new_size, align)} })

\* TcMalloc::realloc_slow
realloc_slow(st, t, ptr, size, align, new_size) ==
  LET span == pagemap_get(st.pagemap, PageOf(ptr))
      sc == st.spans[span].size_class
      current_size == class_to_size(sc)
      effective_new == Max(new_size, align)
      new_class == size_to_class(effective_new)
      span_bytes == st.spans[span].num_pages * PAGE_SIZE
      inplace == [st |-> st, ptr |-> ptr, k |-> -3, to |-> -1, copy |-> 0]
  IN IF span # Null /\ sc # 0 /\ (new_class = sc \/ new_size <= current_size)
     THEN inplace
     ELSE IF span # Null /\ sc = 0 /\ new_size <= span_bytes
     THEN inplace
     ELSE realloc_move(st, t, ptr, size, align, new_size)

\* A faulty realloc whose fast path keeps every block whose new size is small.
realloc_keeps_small_blocks(st, t, ptr, size, align, new_size) ==
  LET old_class == size_to_class(size)
      new_class == size_to_class(new_size)
  IN IF ptr = Null \/ size = 0
     THEN The({ [st |-> a.st, ptr |-> a.ptr, k |-> a.k, to |-> -1, copy |-> 0]
                : a \in {alloc(st, t, new_size, align)} })
     ELSE IF new_size = 0
     THEN The({ [st |-> d.st, ptr |-> align, k |-> -3, to |-> d.to, copy |-> 0]
                : d \in {dealloc(st, t, ptr, size, align)} })
     ELSE IF align <= 8 /\ old_class # 0
     THEN IF new_class # 0
          THEN [st |-> st, ptr |-> ptr, k |-> -3, to |-> -1, copy |-> 0]
          ELSE realloc_move(st, t, ptr, size, align, new_size)
     ELSE realloc_slow(st, t, ptr, size, align, new_size)

\* TcMalloc::realloc
realloc(st, t, ptr, size, align, new_size) ==
  LET old_class == size_to_class(size)
      current_size == class_to_size(old_class)
      new_class == size_to_class(new_size)
  IN IF ptr = Null \/ size = 0
     THEN The({ [st |-> a.st, ptr |-> a.ptr, k |-> a.k, to |-> -1, copy |-> 0]
                : a \in {alloc(st, t, new_size, align)} })
     ELSE IF new_size = 0
     THEN The({ [st |-> d.st, ptr |-> align, k |-> -3, to |-> d.to, copy |-> 0]
                : d \in {dealloc(st, t, ptr, size, align)} })
     ELSE IF align <= 8 /\ old_class # 0
     THEN IF new_size <= current_size \/ new_class = old_class
          THEN [st |-> st, ptr |-> ptr, k |-> -3, to |-> -1, copy |-> 0]
          ELSE realloc_move(st, t, ptr, size, align, new_size)
     ELSE realloc_slow(st, t, ptr, size, align, new_size)


(***************************************************************************)
(* The callers.  Requests are drawn from small sets of layouts and sizes;  *)
(* a block is freed or reallocated, by any thread, with the layout that is *)
(* currently associated with it.  A caller that gets a block writes the    *)
(* block's own address into it.                                            *)
(***************************************************************************)
Layouts ==
  { [size |-> 4096, align |-> 8],          \* class 32: two objects per span
    [size |-> 262145, align |-> 8] }       \* large path, 33 pages

NewSizes == { 3072, 262145 }

NoCall ==
  [op |-> "none", ptr |-> Null, size |-> 0, align |-> 0, new_size |-> 0,
   res |-> Null, k |-> -3, to |-> -1, copy |-> 0, t |-> 0]

\* The size class and the capacity of the span that owns ptr (-1, 0: none).
SpanClassOf(st, ptr) ==
  LET s == pagemap_get(st.pagemap, PageOf(ptr))
  IN IF s = Null \/ s \notin DOMAIN st.spans THEN -1 ELSE st.spans[s].size_class

BlockCapacity(st, ptr) ==
  LET s == pagemap_get(st.pagemap, PageOf(ptr))
  IN IF s = Null \/ s \notin DOMAIN st.spans THEN 0
     ELSE IF st.spans[s].size_class = 0 THEN st.spans[s].num_pages * PAGE_SIZE
     ELSE class_to_size(st.spans[s].size_class)

Init ==
  /\ tc = [t \in Threads |-> ThreadCache_new]
  /\ spans = << >>
  /\ free_spans = << >>
  /\ pagemap = << >>
  /\ os_used = 0
  /\ mem = << >>
  /\ live = << >>
  /\ last = NoCall
  /\ calls = 0
  /\ lockpc = [t \in Threads |-> << >>]
  /\ held = [t \in Threads |-> {}]

\* What a call does to the lock steps of its thread: in a specification that
\* steps through the locks the thread has them to take one by one, in any
\* other the call is one step and nothing is left to take.
Noted(t, locks, stepwise) ==
  /\ lockpc' = IF stepwise THEN [lockpc EXCEPT ![t] = locks] ELSE lockpc
  /\ held' = held

AllocDo(t, size, align, stepwise) ==
  /\ lockpc[t] = << >>
  /\ \E r \in {alloc(Cur, t, size, align)} :
       /\ Commit(IF r.ptr = Null \/ size = 0 THEN r.st
                 ELSE [r.st EXCEPT !.mem = MemWrite(@, r.ptr, r.ptr)])
       /\ live' = IF r.ptr = Null \/ size = 0 THEN live
                  ELSE [p \in DOMAIN live \cup {r.ptr} |->
                          IF p = r.ptr THEN [size |-> size, align |-> align] ELSE live[p]]
       /\ last' = [NoCall EXCEPT !.op = "alloc", !.t = t, !.size = size, !.align = align,
                                 !.res = r.ptr, !.k = r.k]
       /\ Noted(t, r.st.locks, stepwise)
  /\ calls' = calls + 1

AllocCall(t, size, align, stepwise) ==
  /\ calls < MaxCalls
  /\ Cardinality(DOMAIN live) < MaxLive
  /\ AllocDo(t, size, align, stepwise)

DeallocDo(t, p, stepwise) ==
  /\ lockpc[t] = << >>
  /\ p \in DOMAIN live
  /\ \E r \in {dealloc(Cur, t, p, live[p].size, live[p].align)} :
       /\ Commit(r.st)
       /\ live' = [q \in DOMAIN live \ {p} |-> live[q]]
       /\ last' = [NoCall EXCEPT !.op = "dealloc", !.t = t, !.ptr = p, !.size = live[p].size,
                                 !.align = live[p].align, !.to = r.to]
       /\ Noted(t, r.st.locks, stepwise)
  /\ calls' = calls + 1

DeallocCall(t, p, stepwise) ==
  /\ calls < MaxCalls
  /\ DeallocDo(t, p, stepwise)

ReallocCall(t, p, new_size, stepwise) ==
  /\ calls < MaxCalls
  /\ lockpc[t] = << >>
  /\ p \in DOMAIN live
  /\ new_size # live[p].size
  /\ \E r \in {realloc(Cur, t, p, live[p].size, live[p].align, new_size)} :
       /\ Commit(r.st)
       /\ live' = IF r.ptr = Null THEN live
                  ELSE [q \in (DOMAIN live \ {p}) \cup {r.ptr} |->
                          IF q = r.ptr
                          THEN [size |-> new_size, align |-> live[p].align]
                          ELSE live[q]]
       /\ last' = [NoCall EXCEPT !.op = "realloc", !.t = t, !.ptr = p, !.size = live[p].size,
                                 !.align = live[p].align, !.new_size = new_size, !.res = r.ptr, !.k = r.k,
                                 !.to = r.to, !.copy = r.copy]
       /\ Noted(t, r.st.locks, stepwise)
  /\ calls' = calls + 1

Alloc(t, size, align) == AllocCall(t, size, align, FALSE)

Dealloc(t, p) == DeallocCall(t, p, FALSE)

Realloc(t, p, new_size) == ReallocCall(t, p, new_size, FALSE)

\* alloc_zeroed: the caller writes nothing into the block it gets.
AllocZeroed(t, size, align) ==
  /\ calls < MaxCalls
  /\ lockpc[t] = << >>
  /\ Cardinality(DOMAIN live) < MaxLive
  /\ \E r \in {alloc_zeroed(Cur, t, size, align)} :
       /\ Commit(r.st)
       /\ live' = IF r.ptr = Null \/ size = 0 THEN live
                  ELSE [p \in DOMAIN live \cup {r.ptr} |->
                          IF p = r.ptr THEN [size |-> size, align |-> align] ELSE live[p]]
       /\ last' = [NoCall EXCEPT !.op = "alloc_zeroed", !.t = t, !.size = size, !.align = align,
                                 !.res = r.ptr, !.k = r.k]
       /\ Noted(t, r.st.locks, FALSE)
  /\ calls' = calls + 1

\* The owner of block p writes into the last word of the block.
Scribble(p) ==
  /\ p \in DOMAIN live
  /\ MemRead(mem, p + live[p].size - 8) # p
  /\ mem' = MemWrite(mem, p + live[p].size - 8, p)
  /\ last' = [NoCall EXCEPT !.op = "write", !.ptr = p]
  /\ UNCHANGED << tc, spans, free_spans, pagemap, os_used, live, calls, lockpc, held >>

\* An invalid free: dealloc of ptr, which no caller holds, with a layout.
DeallocInvalid(t, ptr, size, align) ==
  /\ calls < MaxCalls
  /\ lockpc[t] = << >>
  /\ ptr \notin DOMAIN live
  /\ \E r \in {dealloc(Cur, t, ptr, size, align)} :
       /\ Commit(r.st)
       /\ last' = [NoCall EXCEPT !.op = "dealloc_invalid", !.t = t, !.ptr = ptr, !.size = size,
                                 !.align = align, !.to = r.to]
       /\ Noted(t, r.st.locks, FALSE)
  /\ calls' = calls + 1
  /\ UNCHANGED live

\* The large block that the last call freed is freed once more, while its span
\* is still in the page heap.
DoubleFree(t) ==
  /\ last.op = "dealloc"
  /\ last.to = 0
  /\ pagemap_get(pagemap, PageOf(last.ptr)) \in SeqSet(free_spans)
  /\ DeallocInvalid(t, last.ptr, last.size, last.align)

\* A pointer the allocator never gave out, in a page without page-map entry, is
\* freed with a layout that takes the page-map path.
ForeignFree(t, ptr) ==
  /\ pagemap_get(pagemap, PageOf(ptr)) = Null
  /\ DeallocInvalid(t, ptr, MAX_SMALL_SIZE + 1, 8)

\* dealloc of what alloc returned for a zero-sized layout: the value of align.
DeallocZero(t, align) ==
  /\ calls < MaxCalls
  /\ lockpc[t] = << >>
  /\ \E r \in {dealloc(Cur, t, align, 0, align)} :
       /\ Commit(r.st)
       /\ last' = [NoCall EXCEPT !.op = "dealloc", !.t = t, !.ptr = align, !.align = align,
                                 !.to = r.to]
       /\ Noted(t, r.st.locks, FALSE)
  /\ calls' = calls + 1
  /\ UNCHANGED live

\* A thread exits.  The blocks it allocated stay with the program.
ThreadExit(t) ==
  /\ calls < MaxCalls
  /\ lockpc[t] = << >>
  /\ \E r \in {thread_exit(Cur, t)} :
       /\ Commit(r)
       /\ Noted(t, r.locks, FALSE)
  /\ last' = [NoCall EXCEPT !.op = "exit", !.t = t]
  /\ calls' = calls + 1
  /\ UNCHANGED live

\* One lock step of a thread inside its call: it takes the next lock once no
\* thread holds it (until then it waits), or gives a lock back.
Acquire(t) ==
  /\ lockpc[t] # << >>
  /\ Head(lockpc[t]).a = "acq"
  /\ \A u \in Threads : Head(lockpc[t]).l \notin held[u]
  /\ held' = [held EXCEPT ![t] = @ \cup {Head(lockpc[t]).l}]
  /\ lockpc' = [lockpc EXCEPT ![t] = Tail(@)]
  /\ UNCHANGED << tc, spans, free_spans, pagemap, os_used, mem, live, last, calls >>

Release(t) ==
  /\ lockpc[t] # << >>
  /\ Head(lockpc[t]).a = "rel"
  /\ held' = [held EXCEPT ![t] = @ \ {Head(lockpc[t]).l}]
  /\ lockpc' = [lockpc EXCEPT ![t] = Tail(@)]
  /\ UNCHANGED << tc, spans, free_spans, pagemap, os_used, mem, live, last, calls >>

Next ==
  \/ \E t \in Threads, l \in Layouts : Alloc(t, l.size, l.align)
  \/ \E t \in Threads, p \in DOMAIN live : Dealloc(t, p)
  \/ \E t \in Threads, p \in DOMAIN live, n \in NewSizes : Realloc(t, p, n)

Spec == Init /\ [][Next]_vars

\* One thread that reallocates among more sizes, with a block of alignment 16
\* whose calls take the page-map paths (dealloc_slow, realloc_slow).
ReallocLayouts ==
  { [size |-> 4096, align |-> 8],          \* class 32, fast paths
    [size |-> 4096, align |-> 16],         \* class 32, slow paths
    [size |-> 262145, align |-> 8] }       \* large path, 33 pages

ReallocSizes == { 3072, 4096, 262145 }

NextRealloc ==
  \/ \E l \in ReallocLayouts : Alloc(1, l.size, l.align)
  \/ \E p \in DOMAIN live : Dealloc(1, p)
  \/ \E p \in DOMAIN live, n \in ReallocSizes : Realloc(1, p, n)

SpecRealloc == Init /\ [][NextRealloc]_vars

\* One thread that asks for alignments above PAGE_SIZE and for class 45, whose
\* spans of 32 pages exhaust the pages the OS gives.
AlignLayouts ==
  { [size |-> 20000, align |-> 16384],     \* class 40 is no multiple: large, 3 pages
    [size |-> 262144, align |-> 16384],    \* class 45, small path
    [size |-> 262145, align |-> 8] }       \* large path, 33 pages

AlignSizes == { 20000, 262144 }

NextAlign ==
  \/ \E l \in AlignLayouts : Alloc(1, l.size, l.align)
  \/ \E p \in DOMAIN live : Dealloc(1, p)
  \/ \E p \in DOMAIN live, n \in AlignSizes : Realloc(1, p, n)

SpecAlign == Init /\ [][NextAlign]_vars

\* The threads of Spec, any of which may exit.
NextExit ==
  \/ \E t \in Threads, l \in Layouts : Alloc(t, l.size, l.align)
  \/ \E t \in Threads, p \in DOMAIN live : Dealloc(t, p)
  \/ \E t \in Threads, p \in DOMAIN live, n \in NewSizes : Realloc(t, p, n)
  \/ \E t \in Threads : ThreadExit(t)

SpecExit == Init /\ [][NextExit]_vars

\* Threads whose calls go through their locks step by step, so that one thread
\* can be inside a bucket or the page heap while another arrives.  Class 45
\* has one object per span: a bucket that gets an object back returns the span.
LockLayouts ==
  { [size |-> 262144, align |-> 16384],    \* class 45, freed through dealloc_slow
    [size |-> 262145, align |-> 8] }       \* large path, 33 pages

NextLock ==
  \/ \E t \in Threads, l \in LockLayouts : AllocCall(t, l.size, l.align, TRUE)
  \/ \E t \in Threads, p \in DOMAIN live : DeallocCall(t, p, TRUE)
  \/ \E t \in Threads : Acquire(t)
  \/ \E t \in Threads : Release(t)

SpecLock == Init /\ [][NextLock]_vars


(***************************************************************************)
(* Who owns what: the callers' blocks, the free objects on the thread      *)
(* lists and on the spans' free lists, and the free spans.                 *)
(***************************************************************************)
\* One entry per place on a thread list: << thread, class, position >>.
TcSlots ==
  UNION { UNION { { << t, c, i >> : i \in 1 .. Len(tc[t].lists[c].head) }
                  : c \in DOMAIN tc[t].lists } : t \in Threads }

\* One entry per place on a span's free list: << span, position >>.
SpanSlots ==
  UNION { { << s, i >> : i \in 1 .. Len(spans[s].freelist) } : s \in DOMAIN spans }

TcObjects == { tc[x[1]].lists[x[2]].head[x[3]] : x \in TcSlots }

SpanFreeObjects == { spans[x[1]].freelist[x[2]] : x \in SpanSlots }

\* The byte ranges [lo, hi) that are free: objects on thread lists (of the
\* list's class size), objects on span free lists, free spans.
FreeRanges ==
  { [lo |-> tc[x[1]].lists[x[2]].head[x[3]],
     hi |-> tc[x[1]].lists[x[2]].head[x[3]] + class_to_size(x[2])] : x \in TcSlots }
  \cup
  { [lo |-> spans[x[1]].freelist[x[2]],
     hi |-> spans[x[1]].freelist[x[2]]
            + Max(8, class_to_size(spans[x[1]].size_class))] : x \in SpanSlots }
  \cup
  { [lo |-> start_addr(s), hi |-> start_addr(s + spans[s].num_pages)]
    : s \in SeqSet(free_spans) }

LiveRange(p) == [lo |-> p, hi |-> p + live[p].size]

Disjoint(a, b) == a.hi <= b.lo \/ b.hi <= a.lo

\* The number of places that hold ptr as a free block: thread lists, span free
\* lists, and the page heap when ptr's page lies in a free span.
FreePlaces(ptr) ==
  Cardinality({ x \in TcSlots : tc[x[1]].lists[x[2]].head[x[3]] = ptr })
  + Cardinality({ x \in SpanSlots : spans[x[1]].freelist[x[2]] = ptr })
  + Cardinality({ s \in SeqSet(free_spans) :
                    s <= PageOf(ptr) /\ PageOf(ptr) < s + spans[s].num_pages })

(***************************************************************************)
(* C1.  No block is handed to a caller while it is still live: the byte    *)
(* ranges of two live allocations never overlap, no live block overlaps a  *)
(* free object or a free span, and no free object is held by two lists.    *)
(***************************************************************************)
C1_NoAliasing ==
  /\ \A p \in DOMAIN live, q \in DOMAIN live :
       p # q => Disjoint(LiveRange(p), LiveRange(q))
  /\ \A p \in DOMAIN live, f \in FreeRanges : Disjoint(LiveRange(p), f)
  /\ Cardinality(TcSlots) + Cardinality(SpanSlots)
       = Cardinality(TcObjects \cup SpanFreeObjects)
  /\ \A obj \in TcObjects \cup SpanFreeObjects : FreePlaces(obj) = 1

\* Two blocks are live while a thread that never refilled class 32 holds a
\* class-32 object on its list: a block another thread allocated was freed here.
C1_Witness ==
  /\ Cardinality(DOMAIN live) = 2
  /\ \E t \in Threads :
       /\ 32 \in DOMAIN tc[t].lists
       /\ tc[t].lists[32].head # << >>
       /\ tc[t].lists[32].max_length = 1

(***************************************************************************)
(* C3.  Every object on a thread-cache list of class c, and every span     *)
(* linked on a list of central bucket c, belongs to size class c.          *)
(***************************************************************************)
C3_ListClassMatchesSpan ==
  /\ \A x \in TcSlots : SpanClassOf(Cur, tc[x[1]].lists[x[2]].head[x[3]]) = x[2]
  /\ \A s \in DOMAIN spans :
       spans[s].where # "none" => spans[s].bucket = spans[s].size_class

(***************************************************************************)
(* C4.  dealloc of a block whose span has size class 0 returns the span to *)
(* the page heap and puts the pointer on no thread-cache or central list.  *)
(***************************************************************************)
C4_LargeDeallocToPageHeap ==
  [][ (last'.op = "dealloc" /\ SpanClassOf(Cur, last'.ptr) = 0)
        => /\ last'.to = 0
           /\ last'.ptr \notin TcObjects'
           /\ last'.ptr \notin SpanFreeObjects'
           /\ PageOf(last'.ptr) \in { pg \in DOMAIN pagemap' : pagemap'[pg] \in SeqSet(free_spans') } ]_vars


(***************************************************************************)
(* realloc.  In the step of a realloc call, the unprimed variables are the *)
(* state at the call and last' tells the call and its result.              *)
(***************************************************************************)
\* The class the old block goes to when it is freed with its old layout.
OldLayoutTarget(ptr) ==
  IF live[ptr].align <= 8 /\ size_to_class(live[ptr].size) # 0
  THEN size_to_class(live[ptr].size)
  ELSE SpanClassOf(Cur, ptr)

Moved == last'.op = "realloc" /\ last'.res # Null /\ last'.res # last'.ptr

(***************************************************************************)
(* C5.  realloc returns the original pointer if and only if new_size is   *)
(* at most the capacity of the current block: the class size of its span   *)
(* for a small block, num_pages * PAGE_SIZE for a large one.               *)
(***************************************************************************)
C5_InPlaceIffBlockCapacity ==
  [][ last'.op = "realloc"
        => (last'.res = last'.ptr
              <=> last'.new_size <= BlockCapacity(Cur, last'.ptr)) ]_vars

(***************************************************************************)
(* C6.  When realloc moves a block, the bytes at the new pointer are those *)
(* of the old block at the time of the call, min(old size, new size) of    *)
(* them are copied, and the old block is freed exactly once, with its old  *)
(* layout, after the copy: it is live no more and is free in one place.    *)
(***************************************************************************)
C6_MoveCopiesThenFrees ==
  [][ Moved
        => /\ MemRead(mem', last'.res) = MemRead(mem, last'.ptr)
           /\ last'.copy = Min(live[last'.ptr].size, last'.new_size)
           /\ last'.ptr \notin DOMAIN live'
           /\ last'.res \in DOMAIN live'
           /\ last'.to = OldLayoutTarget(last'.ptr)
           /\ \A p \in DOMAIN live : p = last'.ptr => FreePlaces(p)' = 1
           /\ \A q \in DOMAIN live' : q = last'.res => FreePlaces(q)' = 0 ]_vars

\* A realloc has moved a block: the new block holds what the caller wrote into
\* the old one (the old block's address) and the old block holds a link.
C6_Witness ==
  /\ last.op = "realloc"
  /\ last.res \notin {Null, last.ptr}
  /\ last.copy > 0
  /\ MemRead(mem, last.res) = last.ptr
  /\ last.ptr \notin DOMAIN live

(***************************************************************************)
(* C7.  When realloc has to move the block and the inner alloc fails,      *)
(* realloc returns null and nothing changes: the original block is not     *)
(* freed and stays live with its layout, its contents are what they were,  *)
(* and the thread caches, spans, page heap and page map are untouched.     *)
(***************************************************************************)
C7_FailedMoveKeepsBlock ==
  [][ (last'.op = "realloc" /\ last'.res = Null)
        => /\ last'.ptr \in DOMAIN live'
           /\ UNCHANGED << tc, spans, free_spans, pagemap, os_used, mem, live >>
           /\ last'.to = 0 - 1
           /\ last'.copy = 0 ]_vars

\* A realloc returned null and the block it was called for is still live and
\* holds what its caller wrote.
C7_Witness ==
  /\ last.op = "realloc"
  /\ last.res = Null
  /\ last.ptr \in DOMAIN live
  /\ MemRead(mem, last.ptr) = last.ptr

(***************************************************************************)
(* C8.  alloc returns null only when the whole upstream chain failed.  If  *)
(* the central bucket delivers zero objects, the result is null and every  *)
(* list head, length, max_length and total_size of the thread caches is as *)
(* before the call; if it delivers k >= 1 objects the result is not null.  *)
(* A null result means the bucket delivered nothing or the large path got  *)
(* no span, the page provider would refuse the page heap's growth, and     *)
(* nothing was left half allocated.                                        *)
(***************************************************************************)
C8_NullOnlyWhenChainFailed ==
  [][ last'.op = "alloc"
        => /\ last'.k = 0 => (last'.res = Null /\ tc' = tc)
           /\ last'.k >= 1 => last'.res # Null
           /\ last'.res = Null
                => /\ last'.k \in {0, 0 - 2}
                   /\ os_used + GROW_PAGES > OsPages
                   /\ UNCHANGED << tc, spans, free_spans, pagemap, os_used, mem, live >> ]_vars

\* An alloc on the small path came back null: the bucket delivered nothing.
C8_Witness ==
  /\ last.op = "alloc"
  /\ last.k = 0
  /\ last.res = Null

(***************************************************************************)
(* C2.  Every block a successful alloc(size, align) with size > 0 returned *)
(* is aligned to align.                                                    *)
(***************************************************************************)
C2_Aligned == \A p \in DOMAIN live : p % live[p].align = 0


(***************************************************************************)
(* C9.  When a thread exits, every object that was on one of its thread-   *)
(* cache lists has been returned to the central bucket of its size class:  *)
(* it is on the free list of a span of the list's class that the bucket    *)
(* of that class links, or its span went back to the page heap; it is on   *)
(* no thread list, and the exited thread's cache holds nothing.            *)
(***************************************************************************)
ReturnedTo(obj, c) ==
  /\ obj \notin TcObjects
  /\ \/ \E s \in DOMAIN spans :
          /\ obj \in SeqSet(spans[s].freelist)
          /\ spans[s].size_class = c
          /\ spans[s].where # "none" => spans[s].bucket = c
     \/ \E s \in SeqSet(free_spans) :
          s <= PageOf(obj) /\ PageOf(obj) < s + spans[s].num_pages

Wanted(t) == IF lockpc[t] # << >> /\ Head(lockpc[t]).a = "acq"
             THEN {Head(lockpc[t]).l} ELSE {}

C10_LockHierarchy ==
  \A t \in Threads :
    /\ Cardinality(held[t] \ {PageHeapLock}) <= 1
    /\ Wanted(t) \cap held[t] = {}
    /\ Wanted(t) \ {PageHeapLock} # {} => held[t] = {}
    /\ \A u \in Threads : u # t => held[t] \cap held[u] = {}

\* A thread holds the lock of bucket 45 and waits for the page-heap lock, which
\* another thread holds.
C10_Witness ==
  \E t \in Threads, u \in Threads :
    /\ t # u
    /\ held[t] = {45}
    /\ Wanted(t) = {PageHeapLock}
    /\ PageHeapLock \in held[u]

(***************************************************************************)
(* The threads of SpecLock under fair scheduling: a thread that could take *)
(* its next lock step, taking a free lock or giving one back, is not kept  *)
(* from it for ever.  Every thread makes finitely many calls.              *)
(***************************************************************************)
SpecLive ==
  /\ Init
  /\ [][NextLock]_vars
  /\ \A t \in Threads : WF_vars(Acquire(t)) /\ WF_vars(Release(t))

BytesLayouts ==
  { [size |-> 3072, align |-> 8],          \* class 30: two objects per span
    [size |-> 262145, align |-> 8] }       \* large path, 33 pages

BytesSizes == { 2560, 262145 }

NextBytes ==
  \/ \E t \in Threads, l \in BytesLayouts : Alloc(t, l.size, l.align)
  \/ \E t \in Threads, p \in DOMAIN live : Dealloc(t, p)
  \/ \E t \in Threads, p \in DOMAIN live, n \in BytesSizes : Realloc(t, p, n)

SpecBytes == Init /\ [][NextBytes]_vars

\* The sum of the values of a function.
RECURSIVE SumFn(_)
SumFn(f) ==
  IF DOMAIN f = {} THEN 0
  ELSE LET x == CHOOSE y \in DOMAIN f : TRUE
       IN f[x] + SumFn([y \in DOMAIN f \ {x} |-> f[y]])

\* Bytes of the blocks the callers hold, each counted with the whole block.
LiveBytes == SumFn([p \in DOMAIN live |-> BlockCapacity(Cur, p)])

\* Bytes the thread caches say they hold: ThreadCache::total_size.
TotalSizeBytes == SumFn([t \in Threads |-> tc[t].total_size])

\* Bytes the central buckets hold: the free objects of every carved span.
CentralCountBytes ==
  SumFn([s \in {x \in DOMAIN spans : spans[x].size_class # 0} |->
           spans[s].free_count * class_to_size(spans[s].size_class)])

FreeSpanBytes ==
  SumFn([s \in SeqSet(free_spans) |-> spans[s].num_pages * PAGE_SIZE])

ReservedBytes == os_used * PAGE_SIZE

\* Bytes of the objects on the thread lists and on the spans' free lists, each
\* object counted with the block it is.
TcBytes ==
  SumFn([x \in TcSlots |-> BlockCapacity(Cur, tc[x[1]].lists[x[2]].head[x[3]])])

CentralBytes ==
  SumFn([x \in SpanSlots |-> BlockCapacity(Cur, spans[x[1]].freelist[x[2]])])

\* Bytes at the end of carved spans that are too few for one more object.
SlackBytes ==
  SumFn([s \in {x \in DOMAIN spans : spans[x].size_class # 0} |->
           spans[s].num_pages * PAGE_SIZE
             - Capacity(spans[s]) * class_to_size(spans[s].size_class)])

(***************************************************************************)
(* C12.  In every state, live-object bytes + thread-cache bytes + central- *)
(* cache bytes + free-span bytes equals the bytes reserved from the OS.    *)
(***************************************************************************)
C12_BytesAddUp ==
  LiveBytes + TotalSizeBytes + CentralCountBytes + FreeSpanBytes = ReservedBytes

(***************************************************************************)
(* C12, amended.  In every state, the bytes of the live blocks, of the     *)
(* objects on thread-cache lists, of the objects on central free lists and *)
(* of the free spans, plus the bytes left over at the end of every carved  *)
(* span, equal the bytes reserved from the OS; each block is counted with  *)
(* its whole size (class size of its span, or its span's pages).           *)
(***************************************************************************)
C12_BytesAddUpWithSlack ==
  LiveBytes + TcBytes + CentralBytes + FreeSpanBytes + SlackBytes = ReservedBytes

\* Every term is there at once: a live block, objects on a thread list and on a
\* central free list, a free span, and carved spans with bytes left over.
C12_Witness ==
  /\ LiveBytes > 0
  /\ TcBytes > 0
  /\ CentralBytes > 0
  /\ FreeSpanBytes > 0
  /\ SlackBytes > 0

(***************************************************************************)
(* The size-class lookups as a caller sees them.  A run starts with one    *)
(* request size (0 .. MaxRequest) or one class (1 .. 45) and applies the   *)
(* lookup to it.  In last, new_size is the size asked about and res the    *)
(* class size_to_class gave; for a class, k is the class, res the size     *)
(* class_to_size gave and to the class size_to_class gave for that size.   *)
(***************************************************************************)
InitSize ==
  /\ tc = [t \in Threads |-> ThreadCache_new]
  /\ spans = << >>
  /\ free_spans = << >>
  /\ pagemap = << >>
  /\ os_used = 0
  /\ mem = << >>
  /\ live = << >>
  /\ calls = 0
  /\ lockpc = [t \in Threads |-> << >>]
  /\ held = [t \in Threads |-> {}]
  /\ last \in { [NoCall EXCEPT !.op = "size", !.new_size = s] : s \in 0 .. MaxRequest }
              \cup { [NoCall EXCEPT !.op = "class", !.k = c]
                     : c \in 1 .. NUM_SIZE_CLASSES - 1 }

SizeToClass ==
  /\ last.op = "size"
  /\ last' = [last EXCEPT !.op = "size_to_class", !.res = size_to_class(last.new_size)]
  /\ UNCHANGED << tc, spans, free_spans, pagemap, os_used, mem, live, calls, lockpc, held >>

ClassToSize ==
  /\ last.op = "class"
  /\ last' = [last EXCEPT !.op = "class_to_size", !.res = class_to_size(last.k),
                          !.to = size_to_class(class_to_size(last.k))]
  /\ UNCHANGED << tc, spans, free_spans, pagemap, os_used, mem, live, calls, lockpc, held >>

NextSize == SizeToClass \/ ClassToSize

SpecSize == InitSize /\ [][NextSize]_vars

\* The lookup of a size in 1 .. MAX_SMALL_SIZE has been made.
SmallLookup ==
  last.op = "size_to_class" /\ 1 <= last.new_size /\ last.new_size <= MAX_SMALL_SIZE

(***************************************************************************)
(* C13.  For every size s in 1 .. MAX_SMALL_SIZE, size_to_class(s) is the  *)
(* smallest class whose size is at least s; and for every class c in       *)
(* 1 .. 45, size_to_class(class_to_size(c)) = c.                           *)
(***************************************************************************)
C13_SmallestFittingClass ==
  /\ SmallLookup
       => /\ last.res \in 1 .. NUM_SIZE_CLASSES - 1
          /\ class_to_size(last.res) >= last.new_size
          /\ \A c \in 1 .. last.res - 1 : class_to_size(c) < last.new_size
  /\ last.op = "class_to_size" => last.to = last.k

\* A size above 1024 that is no class size was rounded up by the linear scan.
C13_Witness ==
  /\ SmallLookup
  /\ last.new_size > 1024
  /\ last.res > 25
  /\ class_to_size(last.res) > last.new_size

(***************************************************************************)
(* C14.  class_to_size is strictly increasing over the classes 1 .. 45 and *)
(* size_to_class is non-decreasing over the sizes 1 .. MAX_SMALL_SIZE.     *)
(***************************************************************************)
C14_Monotone ==
  /\ (last.op = "class_to_size" /\ last.k >= 2)
       => class_to_size(last.k - 1) < last.res
  /\ (SmallLookup /\ last.new_size < MAX_SMALL_SIZE)
       => last.res <= size_to_class(last.new_size + 1)

\* A size at which the class steps up: it is a class size and the next size
\* belongs to the next class.
C14_Witness ==
  /\ SmallLookup
  /\ last.new_size < MAX_SMALL_SIZE
  /\ size_to_class(last.new_size + 1) = last.res + 1

C16_FragmentationBound ==
  SmallLookup
    => (class_to_size(last.res) - last.new_size) * 100 <= 12 * class_to_size(last.res)

(***************************************************************************)
(* C16, amended.  For every request size s in 9 .. MAX_SMALL_SIZE the      *)
(* block is less than twice the request (less than half of it is lost),    *)
(* for s in 49 .. 12288 at most 20% of the block is lost, and a request of *)
(* up to 8 bytes gets 8 bytes.                                             *)
(***************************************************************************)
C16_FragmentationBelowHalf ==
  SmallLookup
    => /\ last.new_size >= 9 => class_to_size(last.res) < 2 * last.new_size
       /\ (49 <= last.new_size /\ last.new_size <= 12288)
            => (class_to_size(last.res) - last.new_size) * 100
                 <= 20 * class_to_size(last.res)
       /\ last.new_size <= 8 => class_to_size(last.res) = 8

\* The request that loses most: one byte more than class 44 holds, served by
\* class 45 of twice the size.
C16_Witness ==
  /\ SmallLookup
  /\ last.new_size = class_to_size(44) + 1
  /\ last.res = 45

(***************************************************************************)
(* Zero-sized requests among others: layouts of size 0 with two            *)
(* alignments, class-32 blocks, and frees of the zero-size sentinels.      *)
(***************************************************************************)
ZeroLayouts ==
  { [size |-> 0, align |-> 8],
    [size |-> 0, align |-> 4096],
    [size |-> 4096, align |-> 8] }         \* class 32: two objects per span

ZeroAligns == { l.align : l \in { x \in ZeroLayouts : x.size = 0 } }

NextZero ==
  \/ \E t \in Threads, l \in ZeroLayouts : Alloc(t, l.size, l.align)
  \/ \E t \in Threads, p \in DOMAIN live : Dealloc(t, p)
  \/ \E t \in Threads, a \in ZeroAligns : DeallocZero(t, a)

SpecZero == Init /\ [][NextZero]_vars

(***************************************************************************)
(* C17.  Zero-sized requests never touch allocator state: alloc with size  *)
(* 0 returns the value of align, which is not null and is aligned to       *)
(* align; dealloc with size 0 returns at once; neither changes the thread  *)
(* caches, the central buckets, the page heap, the page map or memory.     *)
(***************************************************************************)
C17_ZeroSizeTouchesNothing ==
  [][ (last'.op \in {"alloc", "dealloc"} /\ last'.size = 0)
        => /\ UNCHANGED << tc, spans, free_spans, pagemap, os_used, mem, live >>
           /\ last'.op = "alloc"
                => /\ last'.res = last'.align
                   /\ last'.res # Null
                   /\ last'.res % last'.align = 0
           /\ last'.op = "dealloc" => last'.to = 0 - 1 ]_vars

\* A zero-sized alloc was made while a block is live, its thread holds free
\* objects on a list and spans are carved: there was state to touch.
C17_Witness ==
  /\ last.op = "alloc"
  /\ last.size = 0
  /\ last.res = 4096
  /\ live # << >>
  /\ TcSlots # {}

(***************************************************************************)
(* One thread that calls alloc_zeroed and alloc; its blocks are written at *)
(* both ends before they are freed; two large blocks exhaust the pages.    *)
(***************************************************************************)
NextZeroed ==
  \/ \E l \in Layouts : AllocZeroed(1, l.size, l.align)
  \/ \E l \in Layouts : Alloc(1, l.size, l.align)
  \/ \E p \in DOMAIN live : Dealloc(1, p)
  \/ \E p \in DOMAIN live : Scribble(p)

SpecZeroed == Init /\ [][NextZeroed]_vars

(***************************************************************************)
(* C18.  After a successful alloc_zeroed(size, align) with size > 0 every  *)
(* byte of the block is zero, also when the block is a reused free object  *)
(* whose first word held a link or that a previous owner wrote into; when  *)
(* alloc fails, alloc_zeroed returns null and writes nothing.              *)
(***************************************************************************)
C18_ZeroedBlockIsZero ==
  [][ last'.op = "alloc_zeroed"
        => /\ (last'.res # Null /\ last'.size > 0)
                => \A a \in DOMAIN mem' :
                     (last'.res <= a /\ a < last'.res + last'.size) => mem'[a] = 0
           /\ last'.res = Null => mem' = mem ]_vars

\* alloc_zeroed was served from the thread's list with a block whose previous
\* owner wrote into its last word: first and last word are zero now.
C18_Witness ==
  /\ last.op = "alloc_zeroed"
  /\ last.k = 0 - 1
  /\ last.res # Null
  /\ last.res \in DOMAIN mem /\ mem[last.res] = 0
  /\ (last.res + last.size - 8) \in DOMAIN mem
  /\ mem[last.res + last.size - 8] = 0

(***************************************************************************)
(* Large requests of one thread: 512 KiB (64 pages, all the OS gives), 33  *)
(* pages, and 3 pages for a 16 KiB-aligned request that no class serves.   *)
(***************************************************************************)
LargeLayouts ==
  { [size |-> 524288, align |-> 8],
    [size |-> 262145, align |-> 8],
    [size |-> 20000, align |-> 16384] }

NextLarge ==
  \/ \E l \in LargeLayouts : Alloc(1, l.size, l.align)
  \/ \E p \in DOMAIN live : Dealloc(1, p)

SpecLarge == Init /\ [][NextLarge]_vars

(***************************************************************************)
(* C19.  For every request served by the large path, alloc gets a span of  *)
(* exactly ceil(size / PAGE_SIZE) pages, the span's size class is 0, the   *)
(* pointer returned is the address of the span's first page, and the page  *)
(* map gives that span for the pointer's page (and for every page of the   *)
(* span); the span is not free.  A request above MAX_SMALL_SIZE is served  *)
(* by the large path.                                                      *)
(***************************************************************************)
C19_LargeSpanExact ==
  [][ last'.op = "alloc"
        => /\ last'.size > MAX_SMALL_SIZE => last'.k = 0 - 2
           /\ (last'.k = 0 - 2 /\ last'.res # Null)
                => \A s \in {pagemap_get(pagemap', PageOf(last'.res))} :
                     /\ s # Null
                     /\ s \in DOMAIN spans'
                     /\ start_addr(s) = last'.res
                     /\ spans'[s].num_pages = (last'.size + PAGE_SIZE - 1) \div PAGE_SIZE
                     /\ spans'[s].size_class = 0
                     /\ s \notin SeqSet(free_spans')
                     /\ \A pg \in s .. s + spans'[s].num_pages - 1 :
                          pagemap_get(pagemap', pg) = s ]_vars

\* 512 KiB were allocated: the block's span has 64 pages and size class 0.
C19_Witness ==
  /\ last.op = "alloc"
  /\ last.size = 524288
  /\ last.res # Null
  /\ pagemap_get(pagemap, PageOf(last.res)) \in DOMAIN spans
  /\ spans[pagemap_get(pagemap, PageOf(last.res))].num_pages = 64
  /\ spans[pagemap_get(pagemap, PageOf(last.res))].size_class = 0

(***************************************************************************)
(* Invalid frees among valid calls: a large block is freed twice in a row, *)
(* and pointers in pages the allocator never reserved are freed.           *)
(***************************************************************************)
ForeignPointers == { PAGE_SIZE, 2 * PAGE_SIZE + 64 }

NextInvalid ==
  \/ \E t \in Threads, l \in Layouts : Alloc(t, l.size, l.align)
  \/ \E t \in Threads, p \in DOMAIN live : Dealloc(t, p)
  \/ \E t \in Threads : DoubleFree(t)
  \/ \E t \in Threads, p \in ForeignPointers : ForeignFree(t, p)

SpecInvalid == Init /\ [][NextInvalid]_vars

(***************************************************************************)
(* C20.  An invalid free does not corrupt allocator state: dealloc on the  *)
(* page-map path of a pointer whose page has no page-map entry, or of a    *)
(* large block that was already freed and whose span sits in the page      *)
(* heap, leaves thread caches, central buckets, page-heap free lists and   *)
(* page map unchanged.                                                     *)
(***************************************************************************)
C20_InvalidFreeChangesNothing ==
  [][ last'.op = "dealloc_invalid"
        => UNCHANGED << tc, spans, free_spans, pagemap, os_used >> ]_vars


\* ---------------------------------------------------------------------------
\* C21 (as stated): in any thread-cache state, after deallocate(p, c) the next
\* allocate(c) on the same thread, with nothing in between, is served from the
\* thread cache and returns p.
C21_ReuseAfterDeallocate ==
  [][ (last'.op = "dealloc" /\ last'.size > 0 /\ last'.to >= 1)
        => \A r \in {allocate(Cur', last'.t, last'.to)} :
              r.ptr = last'.ptr /\ r.k = -1 ]_vars

\* The push of deallocate(p, c) stays within the list's max_length and the
\* cache's max_size, so neither release_to_central nor scavenge runs.
PushFits(t, c) ==
  /\ ListOf(tc[t], c).length < ListOf(tc[t], c).max_length
  /\ tc[t].total_size + class_to_size(c) <= tc[t].max_size

\* C21 (amended): when the push of deallocate(p, c) takes the list neither over
\* its max_length nor the cache over max_size, the next allocate(c) on the same
\* thread is served from the thread cache and returns p.
C21_ReuseWhenPushFits ==
  [][ (last'.op = "dealloc" /\ last'.size > 0 /\ last'.to >= 1
       /\ PushFits(last'.t, last'.to))
        => \A r \in {allocate(Cur', last'.t, last'.to)} :
              r.ptr = last'.ptr /\ r.k = -1 ]_vars

\* A deallocate has just pushed its pointer in front of a list that already
\* held other objects.
C21_Witness ==
  /\ last.op = "dealloc" /\ last.to >= 1
  /\ ListOf(tc[last.t], last.to).length >= 2
  /\ Head(ListOf(tc[last.t], last.to).head) = last.ptr


(***************************************************************************)
(* One thread that asks for 20 and 24 bytes (both class 3, 24-byte         *)
(* objects) and resizes to 24 and to 32 bytes (class 4).                   *)
(***************************************************************************)
SameClassLayouts ==
  { [size |-> 24, align |-> 8],
    [size |-> 20, align |-> 8] }

SameClassSizes == { 24, 32 }

NextSameClass ==
  \/ \E l \in SameClassLayouts : Alloc(1, l.size, l.align)
  \/ \E p \in DOMAIN live : Dealloc(1, p)
  \/ \E p \in DOMAIN live, n \in SameClassSizes : Realloc(1, p, n)

SpecSameClass == Init /\ [][NextSameClass]_vars

\* C22 (as stated): for p = alloc(24, 8), realloc(p, 24, 8, 32) returns p
\* itself, because 24 and 32 map to the same size class.
C22_Realloc24To32InPlace ==
  [][ (last'.op = "realloc" /\ last'.size = 24 /\ last'.align = 8
       /\ last'.new_size = 32)
        => /\ last'.res = last'.ptr
           /\ size_to_class(24) = size_to_class(32) ]_vars

\* C22 (amended): 24 and 32 bytes map to different classes (3 and 4), so
\* realloc(p, 24, 8, 32) moves the block: it returns a fresh class-4 object
\* that holds the old 24 bytes, and p goes back to the class-3 list; a resize
\* within the class (20 to 24 bytes) returns p itself.
C22_Realloc24To32Moves ==
  [][ /\ (last'.op = "realloc" /\ last'.size = 24 /\ last'.align = 8
          /\ last'.new_size = 32)
        => /\ size_to_class(24) = 3 /\ size_to_class(32) = 4
           /\ last'.res # Null /\ last'.res # last'.ptr
           /\ SpanClassOf(Cur', last'.res) = 4
           /\ last'.copy = 24
           /\ last'.to = 3
      /\ (last'.op = "realloc" /\ last'.size = 20 /\ last'.align = 8
          /\ last'.new_size = 24)
        => last'.res = last'.ptr ]_vars

\* realloc(p, 24, 8, 32) has returned a block other than p.
C22_Witness ==
  /\ last.op = "realloc" /\ last.size = 24 /\ last.new_size = 32
  /\ last.res # Null /\ last.res # last.ptr
  /\ last.res \in DOMAIN live


(***************************************************************************)
(* A burst on one thread with a fresh cache: up to BurstMax allocations of *)
(* 32 bytes (class 4, batch 32), then every block is freed, in ascending   *)
(* or in descending address order.  Nothing is allocated once the freeing  *)
(* has begun.                                                              *)
(***************************************************************************)
BurstSize == 32

SetMax(S) == CHOOSE x \in S : \A y \in S : y <= x

BurstAlloc ==
  /\ last.op \in {"none", "alloc"}
  /\ Cardinality(DOMAIN live) < BurstMax
  /\ AllocDo(1, BurstSize, 8, FALSE)

BurstDealloc ==
  /\ DOMAIN live # {}
  /\ \E p \in {SetMin(DOMAIN live), SetMax(DOMAIN live)} :
       /\ last.op = "dealloc"
            => p = IF last.ptr < SetMin(DOMAIN live) THEN SetMin(DOMAIN live)
                   ELSE SetMax(DOMAIN live)
       /\ DeallocDo(1, p, FALSE)

NextBurst == BurstAlloc \/ BurstDealloc

SpecBurst == Init /\ [][NextBurst]_vars

\* The burst of 40 allocations and 40 deallocations is over.
BurstOf40Done ==
  /\ last.op = "dealloc" /\ calls = 2 * 40 /\ DOMAIN live = {}

\* C23 (as stated): from a fresh thread cache, after 40 allocations of 32
\* bytes and the deallocation of all 40, the class-4 list holds 40 objects.
C23_ListHolds40 ==
  BurstOf40Done => ListOf(tc[1], 4).length = 40

\* C23 (amended): after the burst the class-4 list holds 32 objects, its
\* max_length, the batch size; the other 32 of the 64 objects that the two
\* refills fetched are back in the central bucket's span.
C23_ListHolds32 ==
  BurstOf40Done
    => /\ ListOf(tc[1], 4).length = 32
       /\ ListOf(tc[1], 4).max_length = class_info(4).batch_size
       /\ tc[1].total_size = 32 * BurstSize
       /\ \E s \in DOMAIN spans :
            /\ spans[s].size_class = 4
            /\ spans[s].free_count = Capacity(spans[s]) - 32

\* The burst of 40 is over and the list is at its max_length.
C23_Witness ==
  /\ BurstOf40Done
  /\ ListOf(tc[1], 4).length = ListOf(tc[1], 4).max_length


\* ---------------------------------------------------------------------------
\* The allocator state the round trip is about: the pages reserved from the
\* OS and the contents of every free list (thread caches, the spans of the
\* central buckets, the page heap's free spans).
FreeListsOf(st) ==
  [os      |-> st.os_used,
   tc      |-> st.tc,
   central |-> [s \in {x \in DOMAIN st.spans : st.spans[x].size_class >= 1} |->
                  [class |-> st.spans[s].size_class, objs |-> st.spans[s].freelist]],
   heap    |-> {<<s, st.spans[s].num_pages>> : s \in SeqSet(st.free_spans)}]

\* dealloc(ptr, s, a) right after the alloc(s, a) that has just returned ptr.
DeallocOfLast(st) == dealloc(st, last'.t, last'.res, last'.size, last'.align).st

C24_RefillIsNotUndone ==
  [][ (last'.op = "alloc" /\ last'.res # Null /\ last'.k >= 1)
        => \A d \in {DeallocOfLast(Cur')} : FreeListsOf(d) # FreeListsOf(Cur) ]_vars

RequestClass(size, align) ==
  LET class == IF align <= 8 THEN size_to_class(size)
               ELSE size_to_class(Max(size, align))
  IN IF class # 0 /\ (align <= 8 \/ class_to_size(class) % align = 0)
     THEN class ELSE 0

\* The step is an alloc whose class has a non-empty list on the calling thread.
FastAlloc ==
  /\ calls' = calls + 1
  /\ last'.op = "alloc" /\ last'.size > 0
  /\ RequestClass(last'.size, last'.align) # 0
  /\ ListOf(tc[last'.t], RequestClass(last'.size, last'.align)).head # << >>

\* The step is a dealloc that pushes on a thread list and takes neither the
\* list over max_length nor the cache over max_size.
FastDealloc ==
  /\ calls' = calls + 1
  /\ last'.op = "dealloc" /\ last'.size > 0
  /\ last'.to >= 1
  /\ PushFits(last'.t, last'.to)

\* C25: the thread-cache fast path is lock-free and independent.  An allocate
\* on a class whose thread list is non-empty, and a deallocate that pushes
\* neither the list over max_length nor total_size over max_size, acquire no
\* lock and leave the central cache, page heap, page map and every other
\* thread's cache unchanged.
C25_FastPathLockFree ==
  [][ (FastAlloc \/ FastDealloc)
        => /\ lockpc'[last'.t] = << >>
           /\ UNCHANGED << spans, free_spans, pagemap, os_used >>
           /\ \A u \in Threads : u # last'.t => tc'[u] = tc[u]
           /\ FastAlloc => last'.k = 0 - 1 ]_vars

\* A thread has just allocated from its list, or pushed a block on its list,
\* while another thread is between two lock steps of a call of its own.
C25_Witness ==
  /\ last.op \in {"alloc", "dealloc"}
  /\ last.op = "alloc" => last.k = 0 - 1
  /\ last.op = "dealloc" => last.to >= 1
  /\ lockpc[last.t] = << >>
  /\ \E u \in Threads : u # last.t /\ lockpc[u] # << >>


(***************************************************************************)
(* Plain alloc and dealloc, no realloc: thread 1 allocates with alignments *)
(* up to 8 and above 8, on the small and on the large path, and any thread *)
(* frees a block with the layout it was allocated with.                    *)
(***************************************************************************)
PlainLayouts ==
  { [size |-> 4096, align |-> 8],          \* class 32, class from the size
    [size |-> 4000, align |-> 16],         \* class 32, class from the span
    [size |-> 20000, align |-> 16384],     \* large path (3 pages), align > 8
    [size |-> 262145, align |-> 8] }       \* large path (33 pages)

NextPlain ==
  \/ \E l \in PlainLayouts : Alloc(1, l.size, l.align)
  \/ \E t \in Threads, p \in DOMAIN live : Dealloc(t, p)

SpecPlain == Init /\ [][NextPlain]_vars

\* The class dealloc(ptr, size, align) dispatches on: recomputed from the size
\* when align <= 8 and the size maps to a class, read from the span otherwise.
DeallocClass(ptr, size, align) ==
  IF align <= 8 /\ size_to_class(size) # 0 THEN size_to_class(size)
  ELSE SpanClassOf(Cur, ptr)

\* C26: a plain alloc(size, align) followed by dealloc(ptr, size, align)
\* classify the block the same way.  A small-path block of class c is
\* returned to class c (class recomputed from size when align <= 8, read
\* from the owning span when align > 8), and a large-path block is returned
\* to the page heap.
C26_SameClassification ==
  [][ (last'.op = "dealloc" /\ last'.size > 0 /\ calls' = calls + 1)
        => \A p \in DOMAIN live, c \in 0 .. NUM_SIZE_CLASSES - 1 :
             (p = last'.ptr /\ c = RequestClass(live[p].size, live[p].align))
               => /\ SpanClassOf(Cur, p) = c
                  /\ DeallocClass(p, live[p].size, live[p].align) = c
                  /\ last'.to = c
                  /\ c >= 1
                       => \/ p \in SeqSet(ListOf(tc'[last'.t], c).head)
                          \/ ReturnedTo(p, c)'
                  /\ c = 0
                       => /\ p \notin TcObjects' \cup SpanFreeObjects'
                          /\ \E s \in SeqSet(free_spans') :
                               s <= PageOf(p) /\ PageOf(p) < s + spans'[s].num_pages ]_vars

\* A block allocated with an alignment above 8 was freed: a small one went to
\* the list of its span's class, a large one to the page heap.
C26_Witness ==
  /\ last.op = "dealloc" /\ last.align > 8
  /\ \/ last.to = 32 /\ last.ptr \in SeqSet(ListOf(tc[last.t], 32).head)
     \/ last.to = 0 /\ last.size = 20000 /\ free_spans # << >>


\* ---------------------------------------------------------------------------
\* C27: when allocate(c) misses and the refill obtains k >= 1 objects
\* (k <= batch_size of c), exactly one of them is returned to the caller, the
\* other k - 1 are on the class-c thread list (length k - 1, total_size raised
\* by (k - 1) * class size), the returned object is not on the list, and
\* max_length of class c is at least k afterwards.
C27_RefillKeepsAllButOne ==
  [][ (last'.op = "alloc" /\ last'.k >= 1 /\ calls' = calls + 1)
        => \A c \in 1 .. NUM_SIZE_CLASSES - 1, t \in Threads :
             (c = RequestClass(last'.size, last'.align) /\ t = last'.t)
               => /\ ListOf(tc[t], c).head = << >>
                  /\ last'.k <= class_info(c).batch_size
                  /\ last'.res # Null
                  /\ ListOf(tc'[t], c).length = last'.k - 1
                  /\ Len(ListOf(tc'[t], c).head) = last'.k - 1
                  /\ Cardinality(SeqSet(ListOf(tc'[t], c).head) \cup {last'.res})
                       = last'.k
                  /\ \A obj \in SeqSet(ListOf(tc'[t], c).head) \cup {last'.res} :
                       /\ obj \notin SpanFreeObjects'
                       /\ SpanClassOf(Cur', obj) = c
                  /\ tc'[t].total_size
                       = tc[t].total_size + (last'.k - 1) * class_to_size(c)
                  /\ ListOf(tc'[t], c).max_length >= last'.k ]_vars

\* A refill of class 45 got one object only, less than the batch of 2: the
\* caller has it and the list stays empty.
C27_Witness ==
  /\ last.op = "alloc" /\ last.k = 1 /\ last.res # Null
  /\ RequestClass(last.size, last.align) = 45
  /\ ListOf(tc[last.t], 45).head = << >>


\* ---------------------------------------------------------------------------
\* The class-c list of thread t as deallocate's push of p makes it.
Pushed(t, c, p) == <<p>> \o ListOf(tc[t], c).head

\* The central cache holds obj: it is on no thread list and is on a span's free
\* list, or its span went back to the page heap.
InCentral(obj) ==
  /\ obj \notin TcObjects
  /\ \/ obj \in SpanFreeObjects
     \/ \E s \in SeqSet(free_spans) :
          s <= PageOf(obj) /\ PageOf(obj) < s + spans[s].num_pages

\* C28: when deallocate(p, c) pushes p and the class-c list length then
\* exceeds max_length, exactly floor(length / 2) objects are removed from the
\* thread list (from its head) and given to central bucket c, the rest stay
\* on the list, and no object is lost or duplicated: objects kept plus
\* objects released equal the list before the push plus p.
C28_ReleaseHalf ==
  [][ (last'.op = "dealloc" /\ last'.to >= 1 /\ calls' = calls + 1)
        => \A p \in DOMAIN live, c \in 1 .. NUM_SIZE_CLASSES - 1, t \in Threads :
             (p = last'.ptr /\ c = last'.to /\ t = last'.t
              /\ Len(Pushed(t, c, p)) > ListOf(tc[t], c).max_length)
               => LET n == Len(Pushed(t, c, p)) \div 2
                  IN /\ ListOf(tc'[t], c).head
                          = SubSeq(Pushed(t, c, p), n + 1, Len(Pushed(t, c, p)))
                     /\ ListOf(tc'[t], c).length = Len(Pushed(t, c, p)) - n
                     /\ \A obj \in SeqSet(SubSeq(Pushed(t, c, p), 1, n)) :
                          InCentral(obj)'
                     /\ SpanFreeObjects' \cap SeqSet(ListOf(tc'[t], c).head) = {}
                     /\ free_spans' = free_spans
                          => Cardinality(SpanFreeObjects')
                               + Cardinality(SeqSet(ListOf(tc'[t], c).head))
                               = Cardinality(SpanFreeObjects) + Len(Pushed(t, c, p))
                     /\ tc'[t].total_size
                          = tc[t].total_size + class_to_size(c) - n * class_to_size(c) ]_vars

\* A push has taken the class-4 list to 33 objects: 16 went to the central
\* bucket, the freed block among them, and 17 stayed.
C28_Witness ==
  /\ last.op = "dealloc" /\ last.to = 4
  /\ ListOf(tc[1], 4).length = 17
  /\ ListOf(tc[1], 4).max_length = 32
  /\ InCentral(last.ptr)


(***************************************************************************)
(* scavenge as a function of the cache it is called on.  The limit         *)
(* max_size is a field of ThreadCache that new() sets to                   *)
(* MAX_THREAD_CACHE_SIZE; the lists of all classes together never hold 4   *)
(* MiB, so the caches here start with a smaller limit, and their lists are *)
(* filled by the calls of thread 1.                                        *)
(***************************************************************************)
ScavengeLimits == { 2 * PAGE_SIZE, 3 * PAGE_SIZE, MAX_THREAD_CACHE_SIZE }

ScavengeLayouts ==
  { [size |-> 4096, align |-> 8],          \* class 32, batch 4
    [size |-> 3072, align |-> 8] }         \* class 30, batch 4

InitScavenge ==
  /\ \E m \in ScavengeLimits :
       tc = [t \in Threads |-> [ThreadCache_new EXCEPT !.max_size = m]]
  /\ spans = << >>
  /\ free_spans = << >>
  /\ pagemap = << >>
  /\ os_used = 0
  /\ mem = << >>
  /\ live = << >>
  /\ last = NoCall
  /\ calls = 0
  /\ lockpc = [t \in Threads |-> << >>]
  /\ held = [t \in Threads |-> {}]

NextScavenge ==
  \/ \E l \in ScavengeLayouts : Alloc(1, l.size, l.align)
  \/ \E p \in DOMAIN live : Dealloc(1, p)

SpecScavenge == InitScavenge /\ [][NextScavenge]_vars

C29_ScavengeHalvesOnce ==
  [][ (last'.op = "dealloc" /\ last'.to >= 1 /\ calls' = calls + 1)
        => \A p \in DOMAIN live, c \in 1 .. NUM_SIZE_CLASSES - 1, t \in Threads :
             (p = last'.ptr /\ c = last'.to /\ t = last'.t)
               => \A mid \in {deallocate_push(Cur, t, p, c)} :
                    IF mid.tc[t].total_size > mid.tc[t].max_size
                    THEN /\ tc' = scavenge(mid, t).tc
                         /\ tc'[t].total_size < mid.tc[t].total_size
                         /\ \A x \in DOMAIN mid.tc[t].lists :
                              ListOf(tc'[t], x).length
                                \in { mid.tc[t].lists[x].length,
                                      mid.tc[t].lists[x].length
                                        - mid.tc[t].lists[x].length \div 2 }
                    ELSE tc' = mid.tc ]_vars


\* ---------------------------------------------------------------------------
\* The span the page map gives for the page of ptr backs ptr: it is a span
\* that is not free, ptr lies in it, and every page of it maps to it.
MappedToLiveSpan(ptr) ==
  LET s == pagemap_get(pagemap, PageOf(ptr))
  IN /\ s # Null
     /\ s \in DOMAIN spans
     /\ s \notin SeqSet(free_spans)
     /\ s <= PageOf(ptr) /\ PageOf(ptr) < s + spans[s].num_pages
     /\ \A pg \in s .. s + spans[s].num_pages - 1 : pagemap_get(pagemap, pg) = s

\* The step is a dealloc or realloc that takes the page-map path: the layout
\* has an alignment above 8 or a size that maps to no class.
SlowPathCall ==
  /\ calls' = calls + 1
  /\ last'.op \in {"dealloc", "realloc"}
  /\ last'.size > 0
  /\ last'.align > 8 \/ size_to_class(last'.size) = 0

\* C30: in every reachable state, every page of a span that backs a live
\* small or large allocation has a page-map entry pointing to that span, so
\* the page-map lookup done by dealloc and realloc on their slow path never
\* misses for a legitimately allocated pointer.
C30_LiveSpansMapped ==
  /\ [](\A p \in DOMAIN live : MappedToLiveSpan(p))
  /\ [][ SlowPathCall
           => /\ pagemap_get(pagemap, PageOf(last'.ptr)) # Null
              /\ last'.op = "dealloc" => last'.to # 0 - 1 ]_vars

\* A dealloc has just found the span of a 33-page block through the page map
\* and returned it to the page heap, while a small block is live in a span
\* whose pages all map to it.
C30_Witness ==
  /\ last.op = "dealloc" /\ last.to = 0 /\ size_to_class(last.size) = 0
  /\ \E p \in DOMAIN live :
       /\ MappedToLiveSpan(p)
       /\ spans[pagemap_get(pagemap, PageOf(p))].size_class >= 1

\* ---------------------------------------------------------------------------
\* The spans that contain page pg.
SpansOfPage(pg) ==
  { s \in DOMAIN spans : s <= pg /\ pg < s + spans[s].num_pages }

\* C31: after every deallocate_span, and in every state reached by any
\* sequence of allocate_span and deallocate_span, no span in the page-heap
\* free lists is immediately page-adjacent to another free span, every
\* free-list span has size class 0, and the total page count is preserved by
\* split and merge: the spans, free and in use, partition the pages reserved
\* from the page provider.
C31_PageHeapCoalesced ==
  /\ \A s \in SeqSet(free_spans), u \in SeqSet(free_spans) :
       s + spans[s].num_pages # u
  /\ \A s \in SeqSet(free_spans) :
       /\ s \in DOMAIN spans
       /\ spans[s].size_class = 0
       /\ spans[s].num_pages >= 1
  /\ Cardinality(SeqSet(free_spans)) = Len(free_spans)
  /\ \A pg \in OS_BASE_PAGE .. OS_BASE_PAGE + os_used - 1 :
       Cardinality(SpansOfPage(pg)) = 1
  /\ \A s \in DOMAIN spans :
       OS_BASE_PAGE <= s /\ s + spans[s].num_pages <= OS_BASE_PAGE + os_used

\* A dealloc gave a 33-page span to the page heap, which merged it with free
\* neighbours into one free span of more pages while a small span is in use.
C31_Witness ==
  /\ last.op = "dealloc" /\ last.to = 0
  /\ \E s \in SeqSet(free_spans) :
       /\ s <= PageOf(last.ptr)
       /\ spans[s].num_pages > 33
  /\ \E s \in DOMAIN spans : spans[s].size_class >= 1


\* ---------------------------------------------------------------------------
\* The bytes the lists of a thread cache account for: for each class the
\* list's length times the class size.
ListBytes(cache) ==
  SumFn([c \in DOMAIN cache.lists |-> cache.lists[c].length * class_to_size(c)])

\* C32: in every state between thread-cache operations, total_size equals the
\* sum over all classes c of (length of list c) * class_to_size(c), and each
\* list's length field equals the number of objects reachable from its head.
C32_TotalSizeMatchesLists ==
  \A t \in Threads :
    /\ tc[t].total_size = ListBytes(tc[t])
    /\ \A c \in DOMAIN tc[t].lists :
         /\ tc[t].lists[c].length = Len(tc[t].lists[c].head)
         /\ Cardinality(SeqSet(tc[t].lists[c].head)) = Len(tc[t].lists[c].head)

\* A deallocate has released part of a list to the central bucket, and the
\* thread still holds objects: the freed block is no longer on the list.
C32_Witness ==
  /\ last.op = "dealloc" /\ last.to >= 1
  /\ last.ptr \notin SeqSet(ListOf(tc[last.t], last.to).head)
  /\ tc[last.t].total_size > 0
  /\ \E u \in Threads : u # last.t /\ tc[u].total_size > 0


\* ---------------------------------------------------------------------------
\* Every list of every thread cache is within its max_length.
ListsWithinMaxLength ==
  \A t \in Threads : \A c \in DOMAIN tc[t].lists :
    tc[t].lists[c].length <= tc[t].lists[c].max_length

\* C33: after every completed allocate or deallocate on a thread cache, each
\* class list satisfies length <= max_length: a list that overflows by a push
\* is cut back to within its threshold before deallocate returns, and a
\* refill never leaves more objects cached than max_length.
C33_LengthWithinMaxLength ==
  /\ []ListsWithinMaxLength
  /\ [][ /\ (last'.op = "dealloc" /\ last'.to >= 1 /\ calls' = calls + 1)
            => \A p \in DOMAIN live, c \in 1 .. NUM_SIZE_CLASSES - 1, t \in Threads :
                 (p = last'.ptr /\ c = last'.to /\ t = last'.t
                  /\ Len(Pushed(t, c, p)) > ListOf(tc[t], c).max_length)
                   => /\ ListOf(tc'[t], c).length < Len(Pushed(t, c, p))
                      /\ ListOf(tc'[t], c).length <= ListOf(tc'[t], c).max_length
         /\ (last'.op = "alloc" /\ last'.k >= 1 /\ calls' = calls + 1)
            => \A c \in 1 .. NUM_SIZE_CLASSES - 1, t \in Threads :
                 (c = RequestClass(last'.size, last'.align) /\ t = last'.t)
                   => /\ ListOf(tc'[t], c).length = last'.k - 1
                      /\ ListOf(tc'[t], c).length < ListOf(tc'[t], c).max_length
       ]_vars

\* A push took a list of max_length 4 to 5 objects and deallocate returned
\* with 3 objects on it.
C33_Witness ==
  /\ last.op = "dealloc" /\ last.to >= 1
  /\ last.ptr \notin SeqSet(ListOf(tc[last.t], last.to).head)
  /\ ListOf(tc[last.t], last.to).max_length = 4
  /\ ListOf(tc[last.t], last.to).length = 3


\* ---------------------------------------------------------------------------
\* The bytes a thread cache holds when every class list is at its batch size.
MaxCachedBytes ==
  SumFn([c \in 1 .. NUM_SIZE_CLASSES - 1 |->
           class_info(c).batch_size * class_info(c).size])

====
